---------------------------- MODULE Spec2Model ----------------------------
(***************************************************************************)
(* A model of the multitree build orchestrator:                            *)
(*   - the ninja build graph (ninja/ninja_syntax.py, ninja/ninja_writer.py,*)
(*     core/ninja_tools.py),                                               *)
(*   - the nsjail sandbox configuration (core/nsjail.py),                  *)
(*   - the collation of API contributions (core/api_assembly.py),          *)
(*   - the build pipeline (core/orchestrator.py, core/inner_tree.py),      *)
(*   - the melding of overlay trees (core/inner_tree.py),                  *)
(*   - the scan for contribution files (core/api_assembly.py),             *)
(*   - the assembly of the stub libraries (core/api_assembly.py, core/cc), *)
(*   - the inner trees of the lunch config (core/orchestrator.py),         *)
(*   - the requests to the inner trees (core/inner_tree.py, inner_build).  *)
(* Each part has its own specification over its own variables; the         *)
(* variables of the other parts are held at their idle values.             *)
(***************************************************************************)
EXTENDS Integers, Sequences, FiniteSets, TLC

VARIABLES
    \* ---- build graph (Writer / Ninja)
    nodes,          \* Writer.nodes: the node list, in insertion order
    rule_cache,     \* lru_cache of Writer.add_rule: the keys it has seen
    action_cache,   \* lru_cache of Writer.add_build_action: the keys it has seen
    phonies,        \* Ninja._phonies: name -> set of deps, in insertion order
    wstate,         \* "open", "written", or the exception write() raised
    file,           \* the nodes write() streamed to the file, in order
    g_rules,        \* history: every Rule passed to add_rule
    g_actions,      \* history: every BuildAction passed to add_build_action/add_phony by a producer
    g_passed,       \* history: every <<name, dep>> passed to add_global_phony
    \* ---- sandbox configurations (Nsjail)
    heap,           \* the MountPt objects, by identity (index)
    jcwd,           \* Nsjail.cwd of each config
    jmounts,        \* Nsjail.mounts of each config: a list of MountPt identities
    jlast,          \* the last operation, its outcome, and self.mounts (identities) before it
    \* ---- collation of API contributions (assemble_apis)
    contributions,  \* the ContributionData loaded so far, in order
    stub_libraries, \* what collate_contributions returned: the StubLibrary list
    cstate,         \* "loading", "collated", or the exception that ended assemble_apis
    cerrors,        \* context.errors: the errors reported, in order
    \* ---- build pipeline (Orchestrator._build)
    trees,          \* InnerTrees.trees: the keys of the inner trees of the lunch config
    pstage,         \* the step of _build about to run; "done" or "exited" after it
    pidx,           \* for_each_tree: the index, in sorted key order, of the next tree
    plog,           \* history: the start and the end of every stage step, in order
    pexc,           \* the exception that ended the run, None if none
    exit_status,    \* <<>> while running, then <<status>> of the orchestrator process
    info_read,      \* the tree_info_file contents interrogate_tree has loaded, in order
    description,    \* what interrogate_tree has returned to for_each_tree, in order
    \* ---- melding of overlay trees (InnerTree.meld_config)
    mfs,            \* the filesystem: its directories and its files
    mtree,          \* the InnerTree: its root and its meld_dirs
    mconfig,        \* InnerTree._meld_config, once built: its cwd and its mounts
    mcached,        \* whether _meld_config is set
    mexc,           \* the exception the last meld_config raised, None if none
    mcalls,         \* how many times meld_config was read
    \* ---- scan for contribution files (assemble_apis)
    sdirs,          \* what is at the api_contributions path of each inner tree
    sfiles,         \* the file lists for_each_tree has collected, in tree order
    sidx,           \* the index of the inner tree for_each_tree scans next
    sstate,         \* "scanning", "scanned", or the exception that ended the scan
    \* ---- assembly of the stub libraries (assemble_apis, CcApiAssemblyContext)
    lib_idx,        \* the index of the stub library the loop of assemble_apis is at
    version_idx,    \* for a versioned library, the index of the version the loop is at
    stubgen_rule,   \* StubGenerator._stubgen_rule: None, or the name of the rule
    api_levels_file_added,  \* CcApiAssemblyContext._api_levels_file_added
    \* ---- the inner trees of the lunch config (Orchestrator.process_config)
    config_stage,   \* the entry of the lunch config process_config is at
    config_keys,    \* every InnerTreeKey that add() constructed, in order
    config_trees,   \* the dict trees: InnerTreeKey -> InnerTree, in insertion order
    config_domains, \* the dict domains: name -> ApiDomain, in insertion order
    config_exc,     \* None, or the exception that ended process_config
    \* ---- the requests to the inner trees (InnerTree.invoke, inner_build)
    inner_runs      \* every command line invoke() ran, with what the parser of inner_build made of it

gvars == <<nodes, rule_cache, action_cache, phonies, wstate, file,
           g_rules, g_actions, g_passed>>

jvars == <<heap, jcwd, jmounts, jlast>>

cvars == <<contributions, stub_libraries, cstate, cerrors>>

pvars == <<trees, pstage, pidx, plog, pexc, exit_status, info_read, description>>

mvars == <<mfs, mtree, mconfig, mcached, mexc, mcalls>>

svars == <<sdirs, sfiles, sidx, sstate>>

avars == <<lib_idx, version_idx, stubgen_rule, api_levels_file_added>>
kvars == <<config_stage, config_keys, config_trees, config_domains, config_exc>>
ivars == <<inner_runs>>

vars == <<gvars, jvars, cvars, pvars, mvars, svars, avars, kvars, ivars>>

\* The variables each part leaves alone.
notgraph == <<jvars, cvars, pvars, mvars, svars, avars, kvars, ivars>>
notjail == <<gvars, cvars, pvars, mvars, svars, avars, kvars, ivars>>
notcollate == <<gvars, jvars, pvars, mvars, svars, avars, kvars, ivars>>
notpipeline == <<gvars, jvars, cvars, mvars, svars, avars, kvars, ivars>>
notmeld == <<gvars, jvars, cvars, pvars, svars, avars, kvars, ivars>>
notscan == <<gvars, jvars, cvars, pvars, mvars, avars, kvars, ivars>>
notassemble == <<jvars, pvars, mvars, svars, kvars, ivars>>
notconfig == <<gvars, jvars, cvars, pvars, mvars, svars, avars, ivars>>
notinvoke == <<gvars, jvars, cvars, pvars, mvars, svars, avars, kvars>>

None == "None"

\* ------------------------------------------------------------------------
\* Helpers on sequences and sets
\* ------------------------------------------------------------------------
Range(s) == {s[i] : i \in DOMAIN s}

RECURSIVE Perms(_)
\* Every enumeration of the finite set S as a sequence without repetition.
Perms(S) ==
    IF S = {} THEN {<<>>}
    ELSE UNION {{<<x>> \o p : p \in Perms(S \ {x})} : x \in S}

\* ------------------------------------------------------------------------
\* ninja_syntax.py
\* ------------------------------------------------------------------------
\* Variable names in the order python compares them as strings.
VarNameOrder ==
    <<"additionalArgs", "apiLevel", "apiMap", "arch", "command", "content",
      "description", "out_dir">>

NameRank(n) == CHOOSE i \in DOMAIN VarNameOrder : VarNameOrder[i] = n

RULE_VARIABLES ==
    {"command", "depfile", "deps", "description", "dyndep", "generator",
     "msvc_deps_prefix", "restat", "rspfile", "rspfile_content"}

\* Variable(name, value, indent): its key is the triple itself.
Variable(name, value, indent) == <<name, value, indent>>

RECURSIVE InsertByName(_, _)
\* Insert v behind every element whose name is not greater (a stable sort step).
InsertByName(sorted, v) ==
    IF sorted = <<>> THEN <<v>>
    ELSE IF NameRank(Head(sorted)[1]) <= NameRank(v[1])
         THEN <<Head(sorted)>> \o InsertByName(Tail(sorted), v)
         ELSE <<v>> \o sorted

RECURSIVE variables(_)
\* The property `variables`: sorted(self._variables, key=lambda x: x.name).
variables(raw) ==
    IF raw = <<>> THEN <<>>
    ELSE InsertByName(variables(SubSeq(raw, 1, Len(raw) - 1)), raw[Len(raw)])

\* A list_like argument of BuildAction: [t |-> "none"], [t |-> "str", v |-> s]
\* or [t |-> "seq", v |-> <<...>>] (a list or a tuple).
LNone == [t |-> "none", v |-> <<>>]
LStr(s) == [t |-> "str", v |-> <<s>>]
LSeq(q) == [t |-> "seq", v |-> q]

\* BuildAction._as_list: the tuple a list_like argument is cast to.
as_list(l) ==
    IF l.t = "none" THEN <<>>
    ELSE IF l.t = "str" THEN (IF l.v[1] = "" THEN <<>> ELSE <<l.v[1]>>)
    ELSE l.v

\* Rule.__init__: add_variable for each (name, value), each with indent 1.
\* A name outside RULE_VARIABLES raises RuleException: no Rule is built.
RuleOk(vs) == \A i \in DOMAIN vs : vs[i][1] \in RULE_VARIABLES

Rule(name, vs) ==
    [kind |-> "rule", name |-> name, output |-> <<>>, inputs |-> <<>>,
     implicits |-> <<>>, order_only |-> <<>>,
     vars |-> [i \in DOMAIN vs |-> Variable(vs[i][1], vs[i][2], 1)]]

\* BuildAction.__init__
BuildAction(rule, output, inputs, implicits, order_only, vs) ==
    [kind |-> "build", name |-> rule, output |-> as_list(output),
     inputs |-> as_list(inputs), implicits |-> as_list(implicits),
     order_only |-> as_list(order_only),
     vars |-> [i \in DOMAIN vs |-> Variable(vs[i][1], vs[i][2], 1)]]

\* Rule.key
RuleKey(n) == <<"rule", n.name, variables(n.vars)>>

\* BuildAction.key
BuildActionKeyOutputOnly(n) == <<"build", n.output>>
BuildActionKey(n) ==
    <<"build", n.output, n.name, n.inputs, n.implicits, n.order_only,
      variables(n.vars)>>

\* Node.key, as the subclass defines it.
key(n) == IF n.kind = "rule" THEN RuleKey(n) ELSE BuildActionKey(n)

\* Rule._validate_rule / BuildAction._validate, called by stream():
\* the exception the node raises when it is streamed, or None.
validate(n) ==
    IF n.kind = "variable" THEN None
    ELSE IF n.kind = "rule"
    THEN IF \E i \in DOMAIN n.vars : n.vars[i][1] = "command"
         THEN None ELSE "RuleException"
    ELSE IF n.output = <<>> \/ n.name = "" THEN "BuildActionException"
         ELSE None

\* ------------------------------------------------------------------------
\* ninja_writer.py, ninja_tools.py
\* ------------------------------------------------------------------------
MaxNodes == 3

CmdA == <<"command", "cp ${in} ${out}">>
CmdB == <<"command", "printf '${content}' > ${out}">>
Descr == <<"description", "Writes content to out">>

\* The rules the producers pass to add_rule.
RuleArgs ==
    {Rule("copy_file", <<CmdA>>),
     Rule("write_file", <<Descr, CmdB>>),
     Rule("write_file", <<CmdB, Descr>>)}

\* The build actions the producers pass to add_build_action.
ActionArgs ==
    {BuildAction("copy_file", LStr("o1"), LSeq(<<"i1">>), LNone, LNone, <<>>),
     BuildAction("copy_file", LSeq(<<"o1">>), LStr("i1"), LNone, LNone, <<>>),
     BuildAction("copy_file", LStr("o1"), LSeq(<<"i2">>), LNone, LNone, <<>>),
     BuildAction("copy_file", LNone, LSeq(<<"i1">>), LNone, LNone, <<>>),
     BuildAction("phony", LStr("sdk"), LSeq(<<"i1">>), LNone, LNone, <<>>)}

PhonyNames == {"sdk", "all"}
DepArgs == {<<"i1", "i1">>, <<"i2">>}

PhonyIndex(name) ==
    IF \E i \in DOMAIN phonies : phonies[i].name = name
    THEN CHOOSE i \in DOMAIN phonies : phonies[i].name = name
    ELSE 0

\* Writer.add_rule, under functools.lru_cache: a call whose argument equals
\* (by key) the argument of an earlier call returns the cached result and
\* does not run the body.
add_rule(r) ==
    /\ wstate = "open"
    /\ key(r) \in rule_cache \/ Len(nodes) < MaxNodes
    /\ nodes' = IF key(r) \in rule_cache THEN nodes ELSE Append(nodes, r)
    /\ rule_cache' = rule_cache \cup {key(r)}
    /\ g_rules' = g_rules \cup {r}
    /\ UNCHANGED <<action_cache, phonies, wstate, file, g_actions, g_passed>>
    /\ UNCHANGED notgraph

\* What Writer.add_build_action does to (nodes, cache), under lru_cache.
AddedNodes(ns, cache, b) == IF key(b) \in cache THEN ns ELSE Append(ns, b)

add_build_action(b) ==
    /\ wstate = "open"
    /\ key(b) \in action_cache \/ Len(nodes) < MaxNodes
    /\ nodes' = AddedNodes(nodes, action_cache, b)
    /\ action_cache' = action_cache \cup {key(b)}
    /\ g_actions' = g_actions \cup {b}
    /\ UNCHANGED <<rule_cache, phonies, wstate, file, g_rules, g_passed>>
    /\ UNCHANGED notgraph

\* Writer.add_phony(name, deps)
PhonyAction(name, deps) == BuildAction("phony", LStr(name), LSeq(deps), LNone, LNone, <<>>)

add_phony(name, deps) == add_build_action(PhonyAction(name, deps))

\* self._phonies[name] |= set(deps)
AccumulateOverwrite(old, deps) == Range(deps)
Accumulate(old, deps) == old \cup Range(deps)

\* A variant that adds the phony build action at once.
add_global_phony_eager(name, deps) ==
    /\ wstate = "open"
    /\ phonies' =
         IF PhonyIndex(name) = 0
         THEN Append(phonies, [name |-> name, deps |-> Accumulate({}, deps)])
         ELSE [phonies EXCEPT ![PhonyIndex(name)].deps = Accumulate(@, deps)]
    /\ nodes' = AddedNodes(nodes, action_cache, PhonyAction(name, deps))
    /\ action_cache' = action_cache \cup {key(PhonyAction(name, deps))}
    /\ g_passed' = g_passed \cup {<<name, d>> : d \in Range(deps)}
    /\ UNCHANGED <<rule_cache, wstate, file, g_rules, g_actions>>
    /\ UNCHANGED notgraph

\* Ninja.add_global_phony(name, deps)
add_global_phony(name, deps) ==
    /\ wstate = "open"
    /\ phonies' =
         IF PhonyIndex(name) = 0
         THEN Append(phonies, [name |-> name, deps |-> Accumulate({}, deps)])
         ELSE [phonies EXCEPT ![PhonyIndex(name)].deps = Accumulate(@, deps)]
    /\ g_passed' = g_passed \cup {<<name, d>> : d \in Range(deps)}
    /\ UNCHANGED <<nodes, rule_cache, action_cache, wstate, file, g_rules, g_actions>>
    /\ UNCHANGED notgraph

RECURSIVE SetOrders(_)
\* tuple(deps) for each set of _phonies in turn: python fixes no order for
\* the elements of a set, so every enumeration is possible.
SetOrders(i) ==
    IF i = 0 THEN {<<>>}
    ELSE {Append(s, p) : s \in SetOrders(i - 1), p \in Perms(phonies[i].deps)}

RECURSIVE Materialize(_, _, _)
\* for phony, deps in self._phonies.items(): self.add_phony(phony, deps)
\* The result is <<nodes, action cache>> after the first i phonies.
Materialize(i, ords, st) ==
    IF i = 0 THEN st
    ELSE LET prev == Materialize(i - 1, ords, st)
             b == PhonyAction(phonies[i].name, ords[i])
         IN  <<AddedNodes(prev[1], prev[2], b), prev[2] \cup {key(b)}>>

\* The index of the first node whose stream() raises, or 0.
FirstInvalid(ns) ==
    IF \E i \in DOMAIN ns : validate(ns[i]) /= None
    THEN CHOOSE i \in DOMAIN ns :
            /\ validate(ns[i]) /= None
            /\ \A j \in 1..(i - 1) : validate(ns[j]) = None
    ELSE 0

\* Ninja.write followed by Writer.write
write ==
    /\ wstate = "open"
    /\ \E ords \in SetOrders(Len(phonies)) :
         LET st == Materialize(Len(phonies), ords, <<nodes, action_cache>>)
             bad == FirstInvalid(st[1])
         IN  /\ nodes' = st[1]
             /\ action_cache' = st[2]
             /\ file' = IF bad = 0 THEN st[1] ELSE SubSeq(st[1], 1, bad - 1)
             /\ wstate' = IF bad = 0 THEN "written" ELSE validate(st[1][bad])
    /\ UNCHANGED <<rule_cache, phonies, g_rules, g_actions, g_passed>>
    /\ UNCHANGED notgraph

\* The graph is not in use.
GraphIdle ==
    /\ nodes = <<>>
    /\ rule_cache = {}
    /\ action_cache = {}
    /\ phonies = <<>>
    /\ wstate = "idle"
    /\ file = <<>>
    /\ g_rules = {}
    /\ g_actions = {}
    /\ g_passed = {}

\* Writer.__init__ / Ninja.__init__ (the builddir variable is left out of the
\* node list: it is a Variable, which no operation here adds or compares).
GraphInit ==
    /\ nodes = <<>>
    /\ rule_cache = {}
    /\ action_cache = {}
    /\ phonies = <<>>
    /\ wstate = "open"
    /\ file = <<>>
    /\ g_rules = {}
    /\ g_actions = {}
    /\ g_passed = {}


\* ------------------------------------------------------------------------
\* Paths (os.path on posix): a path is a string, a sequence of characters
\* ------------------------------------------------------------------------
\* os.getcwd() of the orchestrator process
Getcwd == <<"/", "w">>

\* str.startswith
startswith(s, p) == Len(p) <= Len(s) /\ SubSeq(s, 1, Len(p)) = p

RECURSIVE split(_)
\* str.split("/")
split(p) ==
    IF p = <<>> THEN << <<>> >>
    ELSE LET r == split(Tail(p))
         IN  IF Head(p) = "/" THEN << <<>> >> \o r
             ELSE << <<Head(p)>> \o Head(r) >> \o Tail(r)

RECURSIVE joinslash(_)
\* "/".join(comps)
joinslash(comps) ==
    IF comps = <<>> THEN <<>>
    ELSE IF Len(comps) = 1 THEN comps[1]
    ELSE comps[1] \o <<"/">> \o joinslash(Tail(comps))

\* posixpath.normpath: the number of leading slashes it keeps
InitialSlashes(p) ==
    IF ~startswith(p, <<"/">>) THEN 0
    ELSE IF startswith(p, <<"/", "/">>) /\ ~startswith(p, <<"/", "/", "/">>) THEN 2
    ELSE 1

RECURSIVE NormComps(_, _, _)
\* posixpath.normpath: the loop over the components
NormComps(comps, new, initial) ==
    IF comps = <<>> THEN new
    ELSE LET c == Head(comps) IN
         IF c = <<>> \/ c = <<".">> THEN NormComps(Tail(comps), new, initial)
         ELSE IF \/ c /= <<".", ".">>
                 \/ (initial = 0 /\ new = <<>>)
                 \/ (new /= <<>> /\ new[Len(new)] = <<".", ".">>)
              THEN NormComps(Tail(comps), Append(new, c), initial)
         ELSE IF new /= <<>>
              THEN NormComps(Tail(comps), SubSeq(new, 1, Len(new) - 1), initial)
         ELSE NormComps(Tail(comps), new, initial)

\* posixpath.normpath
normpath(p) ==
    IF p = <<>> THEN <<".">>
    ELSE LET i == InitialSlashes(p)
             r == [k \in 1..i |-> "/"] \o joinslash(NormComps(split(p), <<>>, i))
         IN  IF r = <<>> THEN <<".">> ELSE r

\* posixpath.join(a, b)
path_join(a, b) ==
    IF startswith(b, <<"/">>) THEN b
    ELSE IF a = <<>> \/ a[Len(a)] = "/" THEN a \o b
    ELSE a \o <<"/">> \o b

\* posixpath.abspath
abspath(p) ==
    IF startswith(p, <<"/">>) THEN normpath(p) ELSE normpath(path_join(Getcwd, p))

\* ------------------------------------------------------------------------
\* core/nsjail.py
\* ------------------------------------------------------------------------
\* The python values True and False (None is None above).
T == "True"
F == "False"

\* nsjail._bool on the values the callers pass (a bool or None).
bool_(value) ==
    IF value \in {T, F} THEN value ELSE None

\* The keyword arguments of MountPt.__init__ at their defaults.
KwDefaults ==
    [src |-> <<>>, prefix_src_env |-> "", src_content |-> "", dst |-> <<>>,
     prefix_dst_env |-> "", fstype |-> "", options |-> "", is_bind |-> None,
     rw |-> None, is_dir |-> None, mandatory |-> None, is_symlink |-> None,
     nosuid |-> None, nodev |-> None, noexec |-> None]

\* A variant that asserts on src only.
MountPtOkSrcOnly(kw) == kw.src = <<>> \/ abspath(kw.src) = kw.src

\* MountPt.__init__: the two asserts ("Paths must be absolute")
MountPtOk(kw) ==
    /\ kw.src = <<>> \/ abspath(kw.src) = kw.src
    /\ kw.dst = <<>> \/ abspath(kw.dst) = kw.dst

\* MountPt.__init__: the object built when the asserts pass
MountPt(kw) ==
    [src |-> kw.src, prefix_src_env |-> kw.prefix_src_env,
     src_content |-> kw.src_content, dst |-> kw.dst,
     prefix_dst_env |-> kw.prefix_dst_env, fstype |-> kw.fstype,
     options |-> kw.options, is_bind |-> bool_(kw.is_bind), rw |-> bool_(kw.rw),
     is_dir |-> bool_(kw.is_dir), mandatory |-> bool_(kw.mandatory),
     is_symlink |-> bool_(kw.is_symlink), nosuid |-> bool_(kw.nosuid),
     nodev |-> bool_(kw.nodev), noexec |-> bool_(kw.noexec)]

\* MountPt.__eq__
MountPtEq(m, o) ==
    /\ m.src = o.src
    /\ m.prefix_src_env = o.prefix_src_env
    /\ m.src_content = o.src_content
    /\ m.dst = o.dst
    /\ m.prefix_dst_env = o.prefix_dst_env
    /\ m.fstype = o.fstype
    /\ m.options = o.options
    /\ m.is_bind = o.is_bind
    /\ m.rw = o.rw
    /\ m.is_dir = o.is_dir
    /\ m.mandatory = o.mandatory
    /\ m.is_symlink = o.is_symlink
    /\ m.nosuid = o.nosuid
    /\ m.nodev = o.nodev
    /\ m.noexec = o.noexec

\* Nsjail.__init__: the mount points that are always needed
\* (the passwd, group and mtab contents are named, not spelled out).
BaseMounts ==
    <<
      MountPt([KwDefaults EXCEPT !.src = <<"/", "p", "r", "o", "c">>, !.dst = <<"/", "p", "r", "o", "c">>, !.is_bind = T, !.rw = T, !.mandatory = T]),
      MountPt([KwDefaults EXCEPT !.src = <<"/", "e", "t", "c", "/", "a", "l", "t", "e", "r", "n", "a", "t", "i", "v", "e", "s">>, !.dst = <<"/", "e", "t", "c", "/", "a", "l", "t", "e", "r", "n", "a", "t", "i", "v", "e", "s">>, !.is_bind = T, !.rw = F, !.mandatory = F]),
      MountPt([KwDefaults EXCEPT !.dst = <<"/", "t", "m", "p">>, !.fstype = "tmpfs", !.rw = T, !.is_bind = F, !.noexec = F, !.nodev = T, !.nosuid = T]),
      MountPt([KwDefaults EXCEPT !.dst = <<"/", "d", "e", "v", "/", "s", "h", "m">>, !.fstype = "tmpfs", !.rw = T, !.is_bind = F]),
      MountPt([KwDefaults EXCEPT !.src = <<"/", "d", "e", "v", "/", "t", "t", "y">>, !.dst = <<"/", "d", "e", "v", "/", "t", "t", "y">>, !.rw = T, !.is_bind = T]),
      MountPt([KwDefaults EXCEPT !.src = <<"/", "p", "r", "o", "c", "/", "s", "e", "l", "f", "/", "f", "d", "/", "0">>, !.dst = <<"/", "d", "e", "v", "/", "s", "t", "d", "i", "n">>, !.is_symlink = T]),
      MountPt([KwDefaults EXCEPT !.src = <<"/", "p", "r", "o", "c", "/", "s", "e", "l", "f", "/", "f", "d", "/", "1">>, !.dst = <<"/", "d", "e", "v", "/", "s", "t", "d", "o", "u", "t">>, !.is_symlink = T]),
      MountPt([KwDefaults EXCEPT !.src = <<"/", "p", "r", "o", "c", "/", "s", "e", "l", "f", "/", "f", "d", "/", "2">>, !.dst = <<"/", "d", "e", "v", "/", "s", "t", "d", "e", "r", "r">>, !.is_symlink = T]),
      MountPt([KwDefaults EXCEPT !.dst = <<"/", "e", "t", "c", "/", "p", "a", "s", "s", "w", "d">>, !.src_content = "passwd", !.mandatory = F]),
      MountPt([KwDefaults EXCEPT !.dst = <<"/", "e", "t", "c", "/", "g", "r", "o", "u", "p">>, !.src_content = "group", !.mandatory = F]),
      MountPt([KwDefaults EXCEPT !.dst = <<"/", "e", "t", "c", "/", "m", "t", "a", "b">>, !.src_content = "mtab", !.mandatory = F]),
      MountPt([KwDefaults EXCEPT !.src = <<"/", "p", "r", "o", "c", "/", "s", "e", "l", "f", "/", "f", "d">>, !.dst = <<"/", "d", "e", "v", "/", "f", "d">>, !.is_symlink = T, !.mandatory = F]),
      MountPt([KwDefaults EXCEPT !.src = <<"/", "d", "e", "v", "/", "n", "u", "l", "l">>, !.dst = <<"/", "d", "e", "v", "/", "n", "u", "l", "l">>, !.rw = T, !.is_bind = T]),
      MountPt([KwDefaults EXCEPT !.src = <<"/", "d", "e", "v", "/", "u", "r", "a", "n", "d", "o", "m">>, !.dst = <<"/", "d", "e", "v", "/", "u", "r", "a", "n", "d", "o", "m">>, !.rw = F, !.is_bind = T]),
      MountPt([KwDefaults EXCEPT !.src = <<"/", "d", "e", "v", "/", "r", "a", "n", "d", "o", "m">>, !.dst = <<"/", "d", "e", "v", "/", "r", "a", "n", "d", "o", "m">>, !.rw = F, !.is_bind = T]),
      MountPt([KwDefaults EXCEPT !.src = <<"/", "d", "e", "v", "/", "z", "e", "r", "o">>, !.dst = <<"/", "d", "e", "v", "/", "z", "e", "r", "o">>, !.is_bind = T]),
      MountPt([KwDefaults EXCEPT !.src = <<"/", "l", "i", "b">>, !.dst = <<"/", "l", "i", "b">>, !.is_bind = T, !.rw = F]),
      MountPt([KwDefaults EXCEPT !.src = <<"/", "b", "i", "n">>, !.dst = <<"/", "b", "i", "n">>, !.is_bind = T, !.rw = F]),
      MountPt([KwDefaults EXCEPT !.src = <<"/", "s", "b", "i", "n">>, !.dst = <<"/", "s", "b", "i", "n">>, !.is_bind = T, !.rw = F]),
      MountPt([KwDefaults EXCEPT !.src = <<"/", "u", "s", "r">>, !.dst = <<"/", "u", "s", "r">>, !.is_bind = T, !.rw = F]),
      MountPt([KwDefaults EXCEPT !.src = <<"/", "l", "i", "b", "6", "4">>, !.dst = <<"/", "l", "i", "b", "6", "4">>, !.is_bind = T, !.rw = F, !.mandatory = F]),
      MountPt([KwDefaults EXCEPT !.src = <<"/", "l", "i", "b", "3", "2">>, !.dst = <<"/", "l", "i", "b", "3", "2">>, !.is_bind = T, !.rw = F, !.mandatory = F])

    >>

Configs == {"a", "b"}

MaxMounts == 3

\* The working directories <<a.cwd, b.cwd>> the two configs are built with.
CwdPairs ==
    {<<<<"/", "a">>, <<"/", "a">>>>,
     <<<<"/", "a">>, <<"/", "a", "/", "b">>>>,
     <<<<"/", "a">>, <<"/", "a", "b">>>>,
     <<<<"/", "a", "/", "b">>, <<"/", "a">>>>}

\* The keyword arguments the callers pass to add_mountpt.
MountArgs ==
    {[KwDefaults EXCEPT !.src = <<"/", "a", "/", "x">>, !.dst = <<"/", "a", "/", "x">>, !.is_bind = T, !.rw = F, !.mandatory = T],
     [KwDefaults EXCEPT !.src = <<"/", "a", "/", "x">>, !.dst = <<"/", "a", "/", "x">>, !.is_bind = T, !.rw = T, !.mandatory = T],
     [KwDefaults EXCEPT !.src = <<"/", "o">>, !.dst = <<"/", "a", "b", "/", "y">>, !.is_bind = T, !.rw = F, !.mandatory = T],
     [KwDefaults EXCEPT !.src = <<"o">>, !.dst = <<"/", "a", "b", "/", "y">>, !.is_bind = T, !.rw = F, !.mandatory = T],
     [KwDefaults EXCEPT !.src = <<"/", "o">>, !.dst = <<"y">>, !.is_bind = T, !.rw = F, !.mandatory = T]}

\* The MountPt objects of a list of identities.
Deref(ms) == [i \in DOMAIN ms |-> heap[ms[i]]]

\* x.dst for x in mounts (Nsjail.mount_points)
mount_points(ms) == {heap[ms[i]].dst : i \in DOMAIN ms}

JLast(op, result, pre) == [op |-> op, result |-> result, pre |-> pre]

\* Nsjail.add_mountpt(**kwargs): self.mounts.append(MountPt(**kwargs))
add_mountpt(c, kw) ==
    /\ Len(heap) < 2 * Len(BaseMounts) + MaxMounts
    /\ IF MountPtOk(kw)
       THEN /\ heap' = Append(heap, MountPt(kw))
            /\ jmounts' = [jmounts EXCEPT ![c] = Append(@, Len(heap) + 1)]
            /\ jlast' = JLast("add_mountpt", "ok", <<>>)
       ELSE /\ jlast' = JLast("add_mountpt", "AssertionError", <<>>)
            /\ UNCHANGED <<heap, jmounts>>
    /\ UNCHANGED jcwd
    /\ UNCHANGED notjail

\* Nsjail.make_cwd_writable
make_cwd_writable(c) ==
    /\ heap' = [i \in DOMAIN heap |->
                  IF /\ i \in Range(jmounts[c])
                     /\ startswith(heap[i].dst, jcwd[c])
                     /\ heap[i].rw /= T
                  THEN [heap[i] EXCEPT !.rw = T]
                  ELSE heap[i]]
    /\ jlast' = JLast("make_cwd_writable", "ok", <<>>)
    /\ UNCHANGED <<jcwd, jmounts>>
    /\ UNCHANGED notjail

\* our_mounts = {x.dst: x for x in self.mounts}: the identity our_mounts[dst]
\* holds (the last mount of the list with that dst), or 0.
our_mounts(ms, dst) ==
    LET same == {i \in DOMAIN ms : heap[ms[i]].dst = dst}
    IN  IF same = {} THEN 0
        ELSE ms[CHOOSE i \in same : \A j \in same : j <= i]

RECURSIVE MergeAppendAll(_, _, _, _)
MergeAppendAll(ours, others, i, acc) ==
    IF i > Len(others) THEN [mounts |-> acc, result |-> "ok"]
    ELSE MergeAppendAll(ours, others, i + 1, Append(acc, others[i]))

RECURSIVE Merge(_, _, _, _)
\* The loop of add_nsjail over other.mounts, from its i-th mount on; acc is
\* self.mounts so far.  A failing assert ends it with what was appended.
Merge(ours, others, i, acc) ==
    IF i > Len(others) THEN [mounts |-> acc, result |-> "ok"]
    ELSE LET mount == others[i]
             mine == our_mounts(ours, heap[mount].dst)
         IN  IF mine = 0
             THEN Merge(ours, others, i + 1, Append(acc, mount))
             ELSE IF MountPtEq(heap[mount], heap[mine])
                  THEN Merge(ours, others, i + 1, acc)
                  ELSE [mounts |-> acc, result |-> "AssertionError"]

\* Nsjail.add_nsjail(other), called on self
add_nsjail(self, other) ==
    /\ IF ~startswith(jcwd[other], jcwd[self])
       THEN /\ jlast' = JLast("add_nsjail", "AssertionError", jmounts[self])
            /\ UNCHANGED jmounts
       ELSE LET r == Merge(jmounts[self], jmounts[other], 1, jmounts[self])
            IN  /\ jmounts' = [jmounts EXCEPT ![self] = r.mounts]
                /\ jlast' = JLast("add_nsjail", r.result, jmounts[self])
    /\ UNCHANGED <<heap, jcwd>>
    /\ UNCHANGED notjail

\* No sandbox configuration is in use.
JailIdle ==
    /\ heap = <<>>
    /\ jcwd = <<>>
    /\ jmounts = <<>>
    /\ jlast = JLast("idle", "ok", <<>>)

\* Two configs after Nsjail(cwd): each holds its own base MountPt objects.
JailInit ==
    /\ heap = BaseMounts \o BaseMounts
    /\ \E cw \in CwdPairs : jcwd = [c \in Configs |-> IF c = "a" THEN cw[1] ELSE cw[2]]
    /\ jmounts = [c \in Configs |->
                    IF c = "a" THEN [i \in 1..Len(BaseMounts) |-> i]
                    ELSE [i \in 1..Len(BaseMounts) |-> Len(BaseMounts) + i]]
    /\ jlast = JLast("init", "ok", <<>>)

\* ------------------------------------------------------------------------
\* core/api_assembly.py: loading and collating the API contributions
\* ------------------------------------------------------------------------
MaxContributions == 3

\* STUB_LANGUAGE_HANDLERS.keys(), in the dict's order.
STUB_LANGUAGE_HANDLERS == <<"cc_libraries", "java_libraries", "resource_libraries">>

\* The inner trees whose out directories hold contribution files.
Trees == {"t1", "t2"}

\* A parsed json object: the keys it has, and their values (a key it has
\* not carries the empty value of its type, never read).
JsonR(keys, name, version, api_domain, cc, java, resource) ==
    [keys |-> keys, name |-> name, version |-> version, api_domain |-> api_domain,
     cc_libraries |-> cc, java_libraries |-> java, resource_libraries |-> resource]
Json(keys, name, version, api_domain, cc, java) ==
    JsonR(keys, name, version, api_domain, cc, java, <<>>)

\* A library entry of a descriptor: its name, its api file, and its header
\* modules (each a name, a root and the header files).
LibraryH(name, api, headers) == [name |-> name, api |-> api, headers |-> headers]
Library(name, api) == LibraryH(name, api, <<>>)

AllKeys == {"name", "version", "api_domain", "cc_libraries", "java_libraries"}

\* The contribution files an inner tree may have exported.
JsonFiles ==
    { Json(AllKeys \ {"java_libraries"}, "publicapi", "1", "system",
           <<Library("libfoo", "libfoo.map.txt")>>, <<>>),
      Json(AllKeys \ {"java_libraries"}, "publicapi", "1", "vendor",
           <<Library("libfoo", "libfoo.map.txt"), Library("libbar", "libbar.map.txt")>>, <<>>),
      Json(AllKeys, "publicapi", "2", "system",
           <<Library("libfoo", "libfoo.map.txt")>>, <<Library("libfoo", "libfoo.txt")>>),
      Json(AllKeys \ {"version", "java_libraries"}, "publicapi", "", "system",
           <<Library("libfoo", "libfoo.map.txt")>>, <<>>),
      Json({}, "", "", "", <<>>, <<>>) }

\* dict.get(k, default) and dict[k] of a parsed json object.
dict_get(json, k, default) == IF k \in json.keys THEN json[k] ELSE default
HasItem(json, k) == k \in json.keys

ContributionData(inner_tree, json_data) == [inner_tree |-> inner_tree, json_data |-> json_data]

StubLibraryContribution(inner_tree, api_domain, library_contribution) ==
    [inner_tree |-> inner_tree, api_domain |-> api_domain,
     library_contribution |-> library_contribution]

StubLibrary(language, api_surface, api_surface_version, name) ==
    [language |-> language, api_surface |-> api_surface,
     api_surface_version |-> api_surface_version, name |-> name,
     contributions |-> <<>>]

\* A variant that keeps only the first contribution of a library.
add_contribution_first_only(lib, contrib) ==
    IF lib.contributions = <<>>
    THEN [lib EXCEPT !.contributions = <<contrib>>]
    ELSE lib
add_contribution(lib, contrib) ==
    [lib EXCEPT !.contributions = Append(@, contrib)]

\* A variant of the grouping key without the surface version.
GroupKeyNoVersion(language, json_data, library) ==
    <<language, json_data.name, library.name>>
GroupKey(language, json_data, library) ==
    <<language, json_data.name, json_data.version, library.name>>

\* grouped: the dict of collate_contributions, as its items in insertion
\* order; grouped.get(key) is the index of the key, 0 when absent.
grouped_get(grouped, k) ==
    IF \E i \in DOMAIN grouped : grouped[i].key = k
    THEN CHOOSE i \in DOMAIN grouped : grouped[i].key = k
    ELSE 0

\* One library entry of one contribution (the body of the innermost loop).
\* The result is the new dict, or the exception raised.
CollateLibrary(grouped, contribution, language, library) ==
    LET json_data == contribution.json_data IN
    IF ~HasItem(json_data, "name") \/ ~HasItem(json_data, "version")
    THEN [exc |-> "KeyError", grouped |-> grouped]
    ELSE
      LET k == GroupKey(language, json_data, library)
          i == grouped_get(grouped, k)
          g == IF i = 0
               THEN Append(grouped,
                           [key |-> k,
                            lib |-> StubLibrary(language, json_data.name,
                                                json_data.version, library.name)])
               ELSE grouped
          j == IF i = 0 THEN Len(g) ELSE i
      IN IF ~HasItem(json_data, "api_domain")
         THEN [exc |-> "KeyError", grouped |-> g]
         ELSE [exc |-> None,
               grouped |-> [g EXCEPT ![j].lib =
                              add_contribution(@,
                                  StubLibraryContribution(contribution.inner_tree,
                                                          json_data.api_domain,
                                                          library))]]

\* The three nested loops, from contribution c, language l, library e on.
RECURSIVE CollateFrom(_, _, _, _, _)
CollateFrom(cs, c, l, e, grouped) ==
    IF c > Len(cs) THEN [exc |-> None, grouped |-> grouped]
    ELSE IF l > Len(STUB_LANGUAGE_HANDLERS) THEN CollateFrom(cs, c + 1, 1, 1, grouped)
    ELSE
      LET language == STUB_LANGUAGE_HANDLERS[l]
          libraries == dict_get(cs[c].json_data, language, <<>>)
      IN IF e > Len(libraries) THEN CollateFrom(cs, c, l + 1, 1, grouped)
         ELSE LET r == CollateLibrary(grouped, cs[c], language, libraries[e])
              IN IF r.exc /= None THEN r
                 ELSE CollateFrom(cs, c, l, e + 1, r.grouped)

\* collate_contributions(contributions): list(grouped.values()), or the
\* exception.
collate_contributions(cs) ==
    LET r == CollateFrom(cs, 1, 1, 1, <<>>)
    IN [exc |-> r.exc,
        libs |-> IF r.exc = None
                 THEN [i \in DOMAIN r.grouped |-> r.grouped[i].lib]
                 ELSE <<>>]

\* assemble_apis, the loading loop: one contribution file of one tree is
\* loaded; an empty json object is skipped.
load_contribution(tree, json_data) ==
    /\ cstate = "loading"
    /\ Len(contributions) < MaxContributions
    /\ contributions' = IF json_data.keys = {}
                        THEN contributions
                        ELSE Append(contributions, ContributionData(tree, json_data))
    /\ UNCHANGED <<stub_libraries, cstate, cerrors>>
    /\ UNCHANGED notcollate

\* Errors.error(message, file, line, col): the error is appended to the list.
error(errors, message, filename) == Append(errors, [message |-> message, file |-> filename])

\* assemble_apis, the loading loop, on a file of a tree that json.load
\* cannot parse: load_contribution_file reports the error and raises it
\* again, which ends assemble_apis.
load_contribution_unparsable(tree) ==
    /\ cstate = "loading"
    /\ cerrors' = error(cerrors, "JSONDecodeError", tree)
    /\ cstate' = "JSONDecodeError"
    /\ UNCHANGED <<contributions, stub_libraries>>
    /\ UNCHANGED notcollate

\* assemble_apis: stub_libraries = collate_contributions(contributions).
collate ==
    /\ cstate = "loading"
    /\ LET r == collate_contributions(contributions)
       IN /\ stub_libraries' = r.libs
          /\ cstate' = IF r.exc = None THEN "collated" ELSE r.exc
    /\ UNCHANGED <<contributions, cerrors>>
    /\ UNCHANGED notcollate

CollateIdle ==
    /\ contributions = <<>>
    /\ stub_libraries = <<>>
    /\ cstate = "idle"
    /\ cerrors = <<>>

CollateInit ==
    /\ contributions = <<>>
    /\ stub_libraries = <<>>
    /\ cstate = "loading"
    /\ cerrors = <<>>

\* ------------------------------------------------------------------------
\* core/orchestrator.py, core/inner_tree.py, core/interrogate.py,
\* core/api_export.py, core/tree_analysis.py, core/ninja_runner.py:
\* the build pipeline
\* ------------------------------------------------------------------------
EXIT_STATUS_OK == 0

\* A str is the sequence of its characters.  The product None is the
\* one-element sequence <<None>>, which no str equals.
NoProduct == <<None>>

\* The characters in use, in the order of their code points.
Alphabet == <<"/", "1", "2", "=", "_", "a", "b", "d", "e", "i", "l", "n", "o", "p", "s", "t", "u", "v">>

\* ord(c)
ord(c) == CHOOSE i \in DOMAIN Alphabet : Alphabet[i] = c

RECURSIVE str_lt(_, _)
\* a < b for two str
str_lt(a, b) ==
    IF b = <<>> THEN FALSE
    ELSE IF a = <<>> THEN TRUE
    ELSE IF a[1] = b[1] THEN str_lt(Tail(a), Tail(b))
    ELSE ord(a[1]) < ord(b[1])

RECURSIVE list_lt(_, _)
\* a < b for two lists of str
list_lt(a, b) ==
    IF b = <<>> THEN FALSE
    ELSE IF a = <<>> THEN TRUE
    ELSE IF a[1] = b[1] THEN list_lt(Tail(a), Tail(b))
    ELSE str_lt(a[1], b[1])

\* InnerTreeKey(root, product): root is a str (LStr) or the list of the root
\* and the meld directories (LSeq).
InnerTreeKey(root, product) ==
    IF root.t = "seq"
    THEN [root |-> root.v[1], melds |-> Tail(root.v), product |-> product]
    ELSE [root |-> root.v[1], melds |-> <<>>, product |-> product]

\* The keys a lunch config may give: the system and the vendor product in
\* one tree, and a module (product None) in that tree or in another.
TreeKeys ==
    { InnerTreeKey(LStr(<<"i", "1">>), <<"s">>), InnerTreeKey(LStr(<<"i", "1">>), NoProduct),
      InnerTreeKey(LStr(<<"i", "2">>), <<"v">>) }

\* A variant that does not compare the meld directories.
cmp_without_melds(a, b) ==
    IF str_lt(a.root, b.root) THEN -1
    ELSE IF str_lt(b.root, a.root) THEN 1
    ELSE IF a.product = b.product THEN 0
    ELSE IF a.product = NoProduct THEN -1
    ELSE IF b.product = NoProduct THEN 1
    ELSE IF str_lt(a.product, b.product) THEN -1
    ELSE 1

\* InnerTreeKey._cmp(a, b): -1, 0 or 1; a product of None sorts first.
cmp(a, b) ==
    IF str_lt(a.root, b.root) THEN -1
    ELSE IF str_lt(b.root, a.root) THEN 1
    ELSE IF list_lt(a.melds, b.melds) THEN -1
    ELSE IF list_lt(b.melds, a.melds) THEN 1
    ELSE IF a.product = b.product THEN 0
    ELSE IF a.product = NoProduct THEN -1
    ELSE IF b.product = NoProduct THEN 1
    ELSE IF str_lt(a.product, b.product) THEN -1
    ELSE 1

\* sorted(self.trees.keys()): InnerTrees.__iter__.
sorted_keys(ks) ==
    CHOOSE q \in Perms(ks) : \A i, j \in DOMAIN q : i < j => cmp(q[i], q[j]) < 0

\* The steps of _build, in the order of its statements.
Stages == <<"interrogate", "export", "assemble", "analyze", "package", "execute">>

\* The steps that for_each_tree runs once per inner tree.
PerTree == {"interrogate", "export", "analyze"}

StageRank(s) == CHOOSE i \in DOMAIN Stages : Stages[i] = s

\* subprocess.run(...).returncode: 0, an exit status, or minus a signal.
ReturnCodes == {0, 1, -9}

\* A variant that takes every return code as a success.
FailedNever(rc) == FALSE
\* if process.returncode: ...
Failed(rc) == rc /= 0

\* A variant that stops after the first tree.
ExhaustedAfterFirst(i, ks) == i > 1 \/ i > Len(ks)
\* for_each_tree: the comprehension is over once index i passed the last key.
Exhausted(i, ks) == i > Len(ks)

\* The statement of _build that runs after stage s is over: the next stage;
\* a for_each_tree over no tree is over at once.
RECURSIVE Enter(_, _)
Enter(r, ks) ==
    IF r > Len(Stages) THEN "return"
    ELSE IF Stages[r] \in PerTree /\ Exhausted(1, ks) THEN Enter(r + 1, ks)
    ELSE Stages[r]

Started(stage, tree) == [ev |-> "start", stage |-> stage, tree |-> tree, rc |-> 0]
Ended(stage, tree, rc) == [ev |-> "end", stage |-> stage, tree |-> tree, rc |-> rc]
Raised(stage, tree, exc) == [ev |-> exc, stage |-> stage, tree |-> tree, rc |-> 0]

\* The run ends: sys.exit(status), or an exception nobody catches (the
\* interpreter then exits with status 1).
Exit(exc, status) ==
    /\ pstage' = "exited"
    /\ pexc' = exc
    /\ exit_status' = <<status>>
    /\ UNCHANGED <<trees, pidx>>

\* The step is over without an error: on to the next tree of the stage, to
\* the next stage, or to "return EXIT_STATUS_OK".
Continue(next_idx) ==
    LET ks == sorted_keys(trees)
        over == pstage \notin PerTree \/ Exhausted(next_idx, ks)
        nxt == IF over THEN Enter(StageRank(pstage) + 1, ks) ELSE pstage
    IN /\ pstage' = IF nxt = "return" THEN "done" ELSE nxt
       /\ pidx' = IF over THEN 1 ELSE next_idx
       /\ exit_status' = IF nxt = "return" THEN <<EXIT_STATUS_OK>> ELSE exit_status
       /\ UNCHANGED <<trees, pexc>>

\* _build: jail_cfg = self._create_nsjail_config(); add_nsjail may fail an
\* assert.
create_nsjail_config(result) ==
    /\ pstage = "start"
    /\ IF result = None
       THEN /\ pstage' = Enter(1, sorted_keys(trees))
            /\ UNCHANGED <<trees, pidx, pexc, exit_status>>
       ELSE Exit(result, 1)
    /\ UNCHANGED <<plog, info_read, description>>
    /\ UNCHANGED notpipeline

\* InnerTree.invoke(args) of the tree at pidx: the child starts, and ends
\* with return code rc.
invoke(stage, rc) ==
    LET tree == sorted_keys(trees)[pidx] IN
    <<Started(stage, tree), Ended(stage, tree, rc)>>

\* The tree_info_file after "describe": absent, not json, json that is not
\* an object, or an object: the keys it has, and the values of "version" and
\* "domain_data" (read only when the object has the key).
TreeInfo(kind, ks, version, domain_data) ==
    [kind |-> kind, keys |-> ks, version |-> version, domain_data |-> domain_data]

TreeInfoFiles ==
    { TreeInfo("absent", {}, 0, <<>>), TreeInfo("garbage", {}, 0, <<>>),
      TreeInfo("list", {}, 0, <<>>),
      TreeInfo("dict", {}, 0, <<>>),
      TreeInfo("dict", {"version"}, 0, <<>>),
      TreeInfo("dict", {"domain_data"}, 0, <<"d1">>),
      TreeInfo("dict", {"version", "domain_data"}, 0, <<"d1">>),
      TreeInfo("dict", {"version", "domain_data"}, 0, <<>>),
      TreeInfo("dict", {"version", "extra"}, 0, <<>>),
      TreeInfo("dict", {"version"}, 1, <<>>),
      TreeInfo("dict", {"version", "domain_data"}, -1, <<"d1">>) }

VALID_KEYS == {"version", "domain_data"}

\* dict.setdefault(key, default): the value under the key afterwards.
setdefault(f, k, default) ==
    IF k \in f.keys
    THEN (IF k = "version" THEN f.version ELSE f.domain_data)
    ELSE default

\* A variant that does not look at the version.
DescribeErrorNoVersion(f) ==
    IF f.kind \in {"absent", "garbage", "list"} THEN "DescribeError"
    ELSE IF f.keys \ VALID_KEYS /= {} THEN "DescribeError"
    ELSE None

\* interrogate_tree, after invoke: the DescribeError it raises, if any.
DescribeError(f) ==
    IF f.kind \in {"absent", "garbage", "list"} THEN "DescribeError"
    ELSE IF f.keys \ VALID_KEYS /= {} THEN "DescribeError"
    ELSE IF setdefault(f, "version", 0) /= 0 THEN "DescribeError"
    ELSE None

\* interrogate_tree: the info_json it returns, after the two setdefault.
info_json(f) ==
    [version |-> setdefault(f, "version", 0),
     domain_data |-> setdefault(f, "domain_data", <<>>)]

\* interrogate_tree(tree_key, inner_tree, cookie) for the tree at pidx.
interrogate_tree(rc, f) ==
    /\ pstage = "interrogate"
    /\ LET tree == sorted_keys(trees)[pidx] IN
       IF Failed(rc)
       THEN /\ plog' = plog \o invoke("interrogate", rc)
            /\ Exit("SystemExit", 1)
            /\ UNCHANGED <<info_read, description>>
       ELSE IF DescribeError(f) /= None
       THEN /\ plog' = plog \o invoke("interrogate", rc)
                            \o <<Raised("interrogate", tree, "DescribeError")>>
            /\ Exit("DescribeError", 1)
            /\ info_read' = Append(info_read, f)
            /\ UNCHANGED description
       ELSE /\ plog' = plog \o invoke("interrogate", rc)
            /\ Continue(pidx + 1)
            /\ info_read' = Append(info_read, f)
            /\ description' = Append(description, info_json(f))
    /\ UNCHANGED notpipeline

\* A step of for_each_tree that is one invoke: export_apis_from_tree and
\* run_analysis.
InvokeStep(stage, rc) ==
    /\ pstage = stage
    /\ plog' = plog \o invoke(stage, rc)
    /\ IF Failed(rc) THEN Exit("SystemExit", 1) ELSE Continue(pidx + 1)
    /\ UNCHANGED <<info_read, description>>
    /\ UNCHANGED notpipeline

export_apis_from_tree(rc) == InvokeStep("export", rc)

run_analysis(rc) == InvokeStep("analyze", rc)

\* A step of _build that runs in the orchestrator process itself.
OuterStep(stage, result) ==
    /\ pstage = stage
    /\ IF result = None
       THEN /\ plog' = plog \o <<Started(stage, <<>>), Ended(stage, <<>>, 0)>>
            /\ Continue(1)
       ELSE /\ plog' = plog \o <<Started(stage, <<>>), Raised(stage, <<>>, result)>>
            /\ Exit(result, 1)
    /\ UNCHANGED <<info_read, description>>
    /\ UNCHANGED notpipeline

\* api_assembly.assemble_apis(context, inner_trees): no child process; an
\* unreadable contribution or a failing collation raises.
assemble_apis(result) == OuterStep("assemble", result)

\* final_packaging.final_packaging(context, inner_trees): the module is not
\* part of this source tree; it writes the packaging rules of the build
\* graph, and runs no child process.
final_packaging(result) == OuterStep("package", result)

\* ninja_runner.run_ninja(context, jail_cfg, targets), then
\* return EXIT_STATUS_OK.
run_ninja(rc) ==
    /\ pstage = "execute"
    /\ plog' = plog \o <<Started("execute", <<>>), Ended("execute", <<>>, rc)>>
    /\ IF Failed(rc) THEN Exit("SystemExit", 1) ELSE Continue(1)
    /\ UNCHANGED <<info_read, description>>
    /\ UNCHANGED notpipeline

PipelineIdle ==
    /\ trees = {}
    /\ pstage = "idle"
    /\ pidx = 1
    /\ plog = <<>>
    /\ pexc = None
    /\ exit_status = <<>>
    /\ info_read = <<>>
    /\ description = <<>>

\* Orchestrator.__init__: the inner trees of the lunch config.
PipelineInit ==
    /\ trees \in SUBSET TreeKeys
    /\ pstage = "start"
    /\ pidx = 1
    /\ plog = <<>>
    /\ pexc = None
    /\ exit_status = <<>>
    /\ info_read = <<>>
    /\ description = <<>>

\* ------------------------------------------------------------------------
\* core/inner_tree.py: InnerTree.meld_config, over a filesystem
\* ------------------------------------------------------------------------
MaxCalls == 2

\* The filesystem: its directories and its files, each as the components
\* of its absolute path.
Fs(dirs, files) == [dirs |-> dirs, files |-> files]

\* The components of the absolute path that path p resolves to.
resolve(p) == SelectSeq(split(abspath(p)), LAMBDA c : c /= <<>>)

\* os.path.isdir(p)
isdir(fs, p) == resolve(p) \in fs.dirs

\* The entries of set s directly below the directory with components d.
Below(s, d) == {e \in s : Len(e) = Len(d) + 1 /\ SubSeq(e, 1, Len(d)) = d}

\* os.listdir(p): the names of the entries of directory p
listdir(fs, p) ==
    LET d == resolve(p) IN {e[Len(e)] : e \in Below(fs.dirs \cup fs.files, d)}

\* The names of the subdirectories of directory p (dirs of os.walk).
subdirs(fs, p) ==
    LET d == resolve(p) IN {e[Len(e)] : e \in Below(fs.dirs, d)}

\* os.makedirs(p, exist_ok=True)
makedirs(fs, p) ==
    LET c == resolve(p)
    IN  [fs EXCEPT !.dirs = @ \cup {SubSeq(c, 1, k) : k \in 0..Len(c)}]

DotGit == <<".", "g", "i", "t">>

\* for src, dirs, _ in os.walk(shared), with the body of the loop: the
\* directories src, in the order of the walk, at which _meld_git is called;
\* the walk does not descend below them.  os.scandir gives the names of a
\* directory in no stated order: names is the order it gives them in.
RECURSIVE walk(_, _, _)
RECURSIVE walk_dirs(_, _, _, _)
walk(fs, src, names) ==
    IF ~isdir(fs, src) THEN <<>>
    ELSE IF DotGit \in subdirs(fs, src) \/ isdir(fs, path_join(src, DotGit))
    THEN <<src>>
    ELSE walk_dirs(fs, src, SelectSeq(names, LAMBDA n : n \in subdirs(fs, src)), names)

walk_dirs(fs, src, dirs, names) ==
    IF dirs = <<>> THEN <<>>
    ELSE walk(fs, path_join(src, Head(dirs)), names) \o walk_dirs(fs, src, Tail(dirs), names)

\* _meld_git(shared, src) on config.mounts: the mounts after it, or the
\* failing assert of MountPt.
meld_git(fs, root, inner_tree_src_path, mounts, shared, src) ==
    LET rel == SubSeq(src, Len(shared) + 2, Len(src))
        dst == path_join(root, rel)
        abs_dst == path_join(inner_tree_src_path, rel)
        abs_src == abspath(src)
        kw == [KwDefaults EXCEPT !.src = abs_src, !.dst = abs_dst,
                                 !.is_bind = T, !.rw = F, !.mandatory = T]
    IN  IF abs_dst \in {mounts[i].dst : i \in DOMAIN mounts}
        THEN [exc |-> None, mounts |-> mounts]
        ELSE IF ~isdir(fs, dst) \/ listdir(fs, dst) = {}
        THEN IF MountPtOk(kw)
             THEN [exc |-> None, mounts |-> Append(mounts, MountPt(kw))]
             ELSE [exc |-> "AssertionError", mounts |-> mounts]
        ELSE [exc |-> None, mounts |-> mounts]

\* _meld_git for each directory of srcs, in order.
RECURSIVE meld_all(_, _, _, _, _, _)
meld_all(fs, root, inner_tree_src_path, r, shared, srcs) ==
    IF srcs = <<>> \/ r.exc /= None THEN r
    ELSE meld_all(fs, root, inner_tree_src_path,
                  meld_git(fs, root, inner_tree_src_path, r.mounts, shared, Head(srcs)),
                  shared, Tail(srcs))

\* for shared in meld_dirs: ...
RECURSIVE meld_dirs_loop(_, _, _, _, _, _)
meld_dirs_loop(fs, root, inner_tree_src_path, r, meld_dirs, names) ==
    IF meld_dirs = <<>> \/ r.exc /= None THEN r
    ELSE LET shared == Head(meld_dirs)
             next == IF isdir(fs, path_join(shared, DotGit))
                     THEN r
                     ELSE meld_all(fs, root, inner_tree_src_path, r, shared,
                                   walk(fs, shared, names))
         IN  meld_dirs_loop(fs, root, inner_tree_src_path, next, Tail(meld_dirs), names)

\* OutDir("out").inner_tree_dir(tree_root, product)
inner_tree_dir(tree_root, product) ==
    path_join(path_join(<<"o", "u", "t">>, <<"t", "r", "e", "e", "s">>),
              tree_root \o <<"_">> \o (IF product = NoProduct \/ product = <<>> THEN <<"u", "n", "b", "u", "n", "d", "l", "e", "d">> ELSE product))

\* OutDir("out").api_surfaces_dir(base=ORIGIN, abspath=True)
api_surfaces_dir == abspath(path_join(<<"o", "u", "t">>, <<"a", "p", "i", "_", "s", "u", "r", "f", "a", "c", "e", "s">>))

\* The three mounts every meld config gets after the base mounts.
TreeMounts(root, tree_root) ==
    << MountPt([KwDefaults EXCEPT !.src = tree_root, !.dst = abspath(root),
                                  !.is_bind = T, !.rw = F, !.mandatory = T]),
       MountPt([KwDefaults EXCEPT !.src = abspath(inner_tree_dir(root, <<"s", "y", "s">>)),
                                  !.dst = abspath(path_join(root, <<"o", "u", "t">>)),
                                  !.is_bind = T, !.rw = T, !.mandatory = T]),
       MountPt([KwDefaults EXCEPT !.src = api_surfaces_dir,
                                  !.dst = path_join(path_join(abspath(root), <<"p", "l", "a", "t", "f", "o", "r", "m">>),
                                                    <<"a", "p", "i", "_", "s", "u", "r", "f", "a", "c", "e", "s">>),
                                  !.is_bind = T, !.rw = F, !.mandatory = F]) >>

\* A directory tree at root: each entry is a path below the root, as its
\* components, and "dir" or "file"; the directories above an entry exist.
Tree(root, entries) ==
    LET P(comps) == resolve(root) \o comps
    IN  Fs({resolve(root)} \cup
             UNION {{P(SubSeq(e[1], 1, k)) :
                       k \in {j \in 1..Len(e[1]) : j < Len(e[1]) \/ e[2] = "dir"}}
                    : e \in entries},
           {P(e[1]) : e \in {x \in entries : x[2] = "file"}})

Git(p) == <<p \o <<DotGit>>, "dir">>

\* The contents the primary root may have.
PrimaryTrees ==
    { {},
      {Git(<<<<"p", "1">>>>)},
      {<<<<<<"p", "1">>>>, "dir">>},
      {<<<<<<"p", "1">>>>, "file">>},
      {Git(<<<<"p", "1">>>>), <<<<<<"p", "2">>>>, "dir">>},
      {Git(<<<<"p", "1">>, <<"q">>>>)},
      {<<<<<<"p", "2">>, <<"f">>>>, "file">>} }

\* The contents an overlay directory may have, if it exists.
OverlayTrees ==
    { [exists |-> FALSE, entries |-> {}],
      [exists |-> TRUE, entries |-> {}],
      [exists |-> TRUE, entries |-> {Git(<<<<"p", "1">>>>)}],
      [exists |-> TRUE, entries |-> {Git(<<<<"p", "1">>>>), Git(<<<<"p", "2">>>>)}],
      [exists |-> TRUE, entries |-> {Git(<<<<"p", "2">>>>)}],
      [exists |-> TRUE, entries |-> {Git(<<>>), Git(<<<<"p", "2">>>>)}],
      [exists |-> TRUE, entries |-> {Git(<<<<"p", "1">>, <<"q">>>>)}],
      [exists |-> TRUE, entries |-> {Git(<<<<"p", "1">>>>), Git(<<<<"p", "1">>, <<"q">>>>)}],
      [exists |-> TRUE, entries |-> {Git(<<<<"o", "u", "t">>>>)}] }

\* InnerTree(context, paths, product, variant): paths[0] and paths[1:].
InnerRoot == <<"i", "n", "n", "e", "r">>
MeldDirLists ==
    { <<>>, <<<<"m", "1">>>>, <<<<"m", "1">>, <<"m", "2">>>>, <<<<"=", "m", "1">>, <<"m", "2">>>>, <<<<"m", "1", "/">>, <<"m", "2">>>> }

\* The orders in which os.scandir may give the names in use.
WalkOrders ==
    { <<<<"o", "u", "t">>, <<"p", "1">>, <<"p", "2">>, <<"q">>>>, <<<<"q">>, <<"p", "2">>, <<"p", "1">>, <<"o", "u", "t">>>> }

\* The filesystem with the primary root and the overlay directories m1, m2.
OverlayFs(name, o) == IF o.exists THEN Tree(name, o.entries) ELSE Fs({}, {})
InitialFs(primary, o1, o2) ==
    LET a == Tree(InnerRoot, primary)
        b == OverlayFs(<<"m", "1">>, o1)
        c == OverlayFs(<<"m", "2">>, o2)
    IN  Fs({<<>>, resolve(Getcwd)} \cup a.dirs \cup b.dirs \cup c.dirs,
           a.files \cup b.files \cup c.files)

\* The meld_config property of the inner tree: the cached config, or
\* the config built from the tree root, the out directory, the API surfaces
\* and the melded projects.
meld_config(names) ==
    /\ mcalls < MaxCalls
    /\ mcalls' = mcalls + 1
    /\ IF mcached
       THEN UNCHANGED <<mfs, mconfig, mcached, mexc>>
       ELSE LET root == mtree.root
                inner_tree_src_path == abspath(root)
                eq == mtree.meld_dirs /= <<>> /\ startswith(mtree.meld_dirs[1], <<"=">>)
                tree_root == IF eq THEN abspath(Tail(mtree.meld_dirs[1]))
                             ELSE inner_tree_src_path
                meld_dirs == IF eq THEN Tail(mtree.meld_dirs) ELSE mtree.meld_dirs
                fs == makedirs(makedirs(mfs, inner_tree_dir(root, <<"s", "y", "s">>)), api_surfaces_dir)
                r == meld_dirs_loop(fs, root, inner_tree_src_path,
                                    [exc |-> None,
                                     mounts |-> BaseMounts \o TreeMounts(root, tree_root)],
                                    meld_dirs, names)
            IN  /\ mfs' = fs
                /\ mexc' = r.exc
                /\ mcached' = (r.exc = None)
                /\ mconfig' = IF r.exc = None
                              THEN [cwd |-> inner_tree_src_path, mounts |-> r.mounts]
                              ELSE mconfig
    /\ UNCHANGED mtree
    /\ UNCHANGED notmeld

MeldIdle ==
    /\ mfs = Fs({}, {})
    /\ mtree = [root |-> <<>>, meld_dirs |-> <<>>]
    /\ mconfig = [cwd |-> <<>>, mounts |-> <<>>]
    /\ mcached = FALSE
    /\ mexc = None
    /\ mcalls = 0

\* InnerTree.__init__ over a filesystem: self._meld_config = None.
MeldInit ==
    /\ \E primary \in PrimaryTrees, o1, o2 \in OverlayTrees :
           mfs = InitialFs(primary, o1, o2)
    /\ \E md \in MeldDirLists : mtree = [root |-> InnerRoot, meld_dirs |-> md]
    /\ mconfig = [cwd |-> <<>>, mounts |-> <<>>]
    /\ mcached = FALSE
    /\ mexc = None
    /\ mcalls = 0

\* ------------------------------------------------------------------------
\* The scan for contribution files (core/api_assembly.py)
\* ------------------------------------------------------------------------
\* The most entries an api_contributions directory holds.
MaxDirents == 2

\* str.endswith
endswith(s, suffix) ==
    /\ Len(s) >= Len(suffix)
    /\ SubSeq(s, Len(s) - Len(suffix) + 1, Len(s)) = suffix

\* The entries os.scandir may yield: their name and what is_file() gives.
Dirents ==
    { [name |-> <<"a", ".", "j", "s", "o", "n">>, is_file |-> TRUE],
      [name |-> <<"c", ".", "j", "s", "o", "n">>, is_file |-> TRUE],
      [name |-> <<"b", ".", "t", "x", "t">>, is_file |-> TRUE],
      [name |-> <<"d">>, is_file |-> FALSE] }

\* What may be at the path of an api_contributions directory: nothing, or a
\* directory; its entries are in the order os.scandir yields them, which is
\* arbitrary, and no two have the same name.
ContributionDirs ==
    {[exists |-> FALSE, entries |-> <<>>]} \cup
    {[exists |-> TRUE, entries |-> e] :
        e \in UNION {Perms(S) : S \in {D \in SUBSET Dirents : Cardinality(D) <= MaxDirents}}}

\* The inner trees, in the order InnerTrees.__iter__ gives their keys.
ScanTrees ==
    << [root |-> <<"t", "1">>, product |-> <<"s">>],
       [root |-> <<"t", "2">>, product |-> <<"v">>] >>

\* OutDirLayout.api_contributions_dir() of the inner tree
api_contributions_dir(tree) ==
    path_join(inner_tree_dir(tree.root, tree.product),
              <<"a", "p", "i", "_", "c", "o", "n", "t", "r", "i", "b", "u", "t", "i", "o", "n", "s">>)

\* The loop over the entries of the directory, from the i-th entry on.
RECURSIVE scan_loop(_, _, _, _)
scan_loop(directory, entries, i, result) ==
    IF i > Len(entries) THEN result
    ELSE IF ~entries[i].is_file THEN result
    ELSE scan_loop(directory, entries, i + 1,
                   IF endswith(entries[i].name, <<".", "j", "s", "o", "n">>)
                   THEN Append(result, path_join(directory, entries[i].name))
                   ELSE result)

\* api_contribution_files_for_inner_tree, as for_each_tree calls it for the
\* next inner tree; os.scandir raises FileNotFoundError when the directory
\* does not exist, and the exception leaves for_each_tree.
api_contribution_files_for_inner_tree ==
    /\ sstate = "scanning"
    /\ sidx <= Len(ScanTrees)
    /\ LET directory == api_contributions_dir(ScanTrees[sidx])
           d == sdirs[sidx]
       IN  IF ~d.exists
           THEN /\ sstate' = "FileNotFoundError"
                /\ UNCHANGED <<sfiles, sidx>>
           ELSE /\ sfiles' = Append(sfiles, scan_loop(directory, d.entries, 1, <<>>))
                /\ sidx' = sidx + 1
                /\ sstate' = IF sidx = Len(ScanTrees) THEN "scanned" ELSE "scanning"
    /\ UNCHANGED sdirs
    /\ UNCHANGED notscan

\* No scan is under way.
ScanIdle ==
    /\ sdirs = <<>>
    /\ sfiles = <<>>
    /\ sidx = 0
    /\ sstate = "idle"

\* assemble_apis is entered: each inner tree has exported what it exported.
ScanInit ==
    /\ sdirs \in [1..Len(ScanTrees) -> ContributionDirs]
    /\ sfiles = <<>>
    /\ sidx = 1
    /\ sstate = "scanning"

\* ------------------------------------------------------------------------
\* The assembly of the stub libraries (core/api_assembly.py,
\* core/cc/api_assembly.py, core/cc/stub_generator.py, core/ninja_tools.py)
\* ------------------------------------------------------------------------
\* In this part a path is the sequence of its components, all of them
\* relative and non-empty: os.path.join is then the concatenation.
basename(p) == <<p[Len(p)]>>
dirname(p) == SubSeq(p, 1, Len(p) - 1)

RECURSIVE CommonPrefix(_, _)
CommonPrefix(a, b) ==
    IF a = <<>> \/ b = <<>> \/ Head(a) /= Head(b) THEN 0
    ELSE 1 + CommonPrefix(Tail(a), Tail(b))

\* os.path.relpath(path, start)
relpath(path, start) ==
    LET c == CommonPrefix(path, start)
    IN  [i \in 1..(Len(start) - c) |-> ".."] \o SubSeq(path, c + 1, Len(path))

\* "-".join(parts): the string, as the sequence of its pieces.
RECURSIVE join(_, _)
join(sep, parts) ==
    IF Len(parts) <= 1 THEN parts
    ELSE <<Head(parts), sep>> \o join(sep, Tail(parts))

\* A path passed as a str argument of BuildAction.
LPath(p) == IF p = <<>> THEN LStr("") ELSE LSeq(<<p>>)

ARCHES == <<"arm", "arm64", "x86", "x86_64">>

ASSEMBLE_PHONY_TARGET == "multitree-sdk"

NDKSTUBGEN ==
    <<"orchestrator", "build", "orchestrator", "core", "cc", "ndkstubgen_runner.sh">>

\* assemble_apis: versions = list(range(1, 34)); versions.append("current"),
\* each as str(version).
LastLevel == 33
\* A variant without the level "current".
versions_without_current == [i \in 1..LastLevel |-> ToString(i)]
versions == [i \in 1..(LastLevel + 1) |-> IF i <= LastLevel THEN ToString(i) ELSE "current"]

\* OutDir("out"): api_library_dir, api_surfaces_work_dir, api_library_work_dir
\* (which joins the base to a path that already starts with the base).
api_library_dir(surface, version, library) ==
    <<"out", "api_surfaces", surface, version, library>>
api_surfaces_work_dir(args) == <<"out", "intermediates", "api_surfaces">> \o args
api_library_work_dir(surface, version, library) ==
    <<"out">> \o api_surfaces_work_dir(<<>>) \o <<surface, version, library>>

\* Tools.acp()
Acp == <<"acp">>

\* A Variable as a node of the graph (Writer.add_variable).
VariableNode(name, value) ==
    [kind |-> "variable", name |-> name, output |-> <<>>, inputs |-> <<>>,
     implicits |-> <<>>, order_only |-> <<>>,
     vars |-> <<Variable(name, value, 0)>>]

\* The Ninja object as a value: its node list, the two lru_caches, its
\* _phonies, and the histories.
TheNinja ==
    [nodes |-> nodes, rule_cache |-> rule_cache, action_cache |-> action_cache,
     phonies |-> phonies, g_rules |-> g_rules, g_actions |-> g_actions,
     g_passed |-> g_passed]

\* Writer.add_variable, Writer.add_rule, Writer.add_build_action and
\* Ninja.add_global_phony, on the value.
ninja_add_variable(n, v) == [n EXCEPT !.nodes = Append(@, v)]

ninja_add_rule(n, r) ==
    [n EXCEPT !.nodes = IF key(r) \in n.rule_cache THEN @ ELSE Append(@, r),
              !.rule_cache = @ \cup {key(r)},
              !.g_rules = @ \cup {r}]

ninja_add_build_action(n, b) ==
    [n EXCEPT !.nodes = AddedNodes(n.nodes, n.action_cache, b),
              !.action_cache = @ \cup {key(b)},
              !.g_actions = @ \cup {b}]

ninja_add_global_phony(n, name, deps) ==
    LET has == \E i \in DOMAIN n.phonies : n.phonies[i].name = name
        at == CHOOSE i \in DOMAIN n.phonies : n.phonies[i].name = name
    IN  [n EXCEPT !.phonies = IF has
                              THEN [@ EXCEPT ![at].deps = Accumulate(@, deps)]
                              ELSE Append(@, [name |-> name, deps |-> Accumulate({}, deps)]),
                  !.g_passed = @ \cup {<<name, d>> : d \in Range(deps)}]

\* Ninja.add_copy_file(copy_to, copy_from)
add_copy_file(n, copy_to, copy_from) ==
    ninja_add_build_action(
        ninja_add_rule(n, Rule("copy_file",
                               <<<<"command", "mkdir -p ${out_dir} && acp -f ${in} ${out}">>>>)),
        BuildAction("copy_file", LPath(copy_to), LSeq(<<copy_from>>), LSeq(<<Acp>>),
                    LNone, <<<<"out_dir", dirname(copy_to)>>>>))

\* Ninja.add_write_file(filepath, content)
add_write_file(n, filepath, content) ==
    ninja_add_build_action(
        ninja_add_rule(n, Rule("write_file", <<Descr, CmdB>>)),
        BuildAction("write_file", LPath(filepath), LNone, LNone, LNone,
                    <<<<"content", content>>>>))

\* StubGenerator._add_stubgen_rule
add_stubgen_rule(n) ==
    ninja_add_rule(
        ninja_add_variable(n, VariableNode("ndkstubgen", NDKSTUBGEN)),
        Rule("genCcStubsRule",
             << <<"description", "Generate stub .c files from .map.txt API description files">>,
                <<"command", "${ndkstubgen} --arch ${arch} --api ${apiLevel} --api-map ${apiMap} ${additionalArgs} ${in} ${out}">> >>))

GenCcStubsInput(arch, version, version_map, api, additional_args) ==
    [arch |-> arch, version |-> version, version_map |-> version_map, api |-> api,
     additional_args |-> additional_args]

\* GenCcStubsOutput: stub, version_script, symbol_list
GenCcStubsOutput(stub_input, work_dir) ==
    << work_dir \o <<stub_input.arch, "stub.c">>,
       work_dir \o <<stub_input.arch, "stub.map">>,
       work_dir \o <<stub_input.arch, "abi_symbol_list.txt">> >>

\* A variant that leaves the version map out of the implicit inputs.
stubgen_action_without_map(stub_input, work_dir) ==
    BuildAction("genCcStubsRule", LSeq(GenCcStubsOutput(stub_input, work_dir)),
                LPath(stub_input.api), LSeq(<<NDKSTUBGEN>>), LNone,
                << <<"arch", stub_input.arch>>, <<"apiLevel", stub_input.version>>,
                   <<"apiMap", stub_input.version_map>>,
                   <<"additionalArgs", stub_input.additional_args>> >>)

\* add_stubgen_action: the BuildAction it creates, with its four variables.
stubgen_action(stub_input, work_dir) ==
    BuildAction("genCcStubsRule", LSeq(GenCcStubsOutput(stub_input, work_dir)),
                LPath(stub_input.api), LSeq(<<NDKSTUBGEN, stub_input.version_map>>), LNone,
                << <<"arch", stub_input.arch>>, <<"apiLevel", stub_input.version>>,
                   <<"apiMap", stub_input.version_map>>,
                   <<"additionalArgs", stub_input.additional_args>> >>)

\* The state a call of assemble_cc_api_library works on: the Ninja object,
\* StubGenerator._stubgen_rule, and the local api_deps.
\* StubGenerator.add_stubgen_action(ninja, stub_input, work_dir)
add_stubgen_action(st, stub_input, work_dir) ==
    LET n == IF st.stubgen_rule = None THEN add_stubgen_rule(st.ninja) ELSE st.ninja
    IN  [st EXCEPT !.ninja = ninja_add_build_action(n, stubgen_action(stub_input, work_dir)),
                   !.stubgen_rule = "genCcStubsRule"]

\* CcApiAssemblyContext._additional_ndkstubgen_args
additional_ndkstubgen_args(api_surface) ==
    IF api_surface = "vendorapi" THEN "--llndk"
    ELSE IF api_surface = "systemapi" THEN "--apex --systemapi"
    ELSE ""

\* CcApiAssemblyContext._api_levels_file
api_levels_file == api_surfaces_work_dir(<<"api_levels.json">>)

\* CcApiAssemblyContext._add_api_levels_file: json.dumps(api_levels) is the
\* content.
add_api_levels_file(n) == add_write_file(n, api_levels_file, "json.dumps(api_levels)")

\* for file in headers["headers"], from the i-th file on
RECURSIVE copy_header_files(_, _, _, _, _)
copy_header_files(st, staging_dir, contrib, headers, i) ==
    IF i > Len(headers.headers) THEN st
    ELSE LET header == headers.headers[i]
             include_dir == staging_dir \o <<headers.name>>
             include == include_dir \o relpath(header, headers.root)
         IN  copy_header_files(
                 [st EXCEPT !.ninja = add_copy_file(@, include, <<contrib.inner_tree>> \o header),
                            !.api_deps = Append(@, include)],
                 staging_dir, contrib, headers, i + 1)

\* for headers in contrib.library_contribution["headers"], from the i-th on
RECURSIVE copy_headers(_, _, _, _)
copy_headers(st, staging_dir, contrib, i) ==
    IF i > Len(contrib.library_contribution.headers) THEN st
    ELSE copy_headers(
             copy_header_files(st, staging_dir, contrib,
                               contrib.library_contribution.headers[i], 1),
             staging_dir, contrib, i + 1)

\* for arch in ARCHES, from the i-th on
RECURSIVE stubgen_arches(_, _, _, _, _)
stubgen_arches(st, stub_library, api_out, work_dir, i) ==
    IF i > Len(ARCHES) THEN st
    ELSE stubgen_arches(
             add_stubgen_action(
                 st,
                 GenCcStubsInput(ARCHES[i], stub_library.api_surface_version,
                                 api_levels_file, api_out,
                                 additional_ndkstubgen_args(stub_library.api_surface)),
                 work_dir),
             stub_library, api_out, work_dir, i + 1)

\* for contrib in stub_library.contributions, from the i-th on
RECURSIVE assemble_contributions(_, _, _, _, _)
assemble_contributions(st, stub_library, staging_dir, work_dir, i) ==
    IF i > Len(stub_library.contributions) THEN st
    ELSE LET contrib == stub_library.contributions[i]
             copied == copy_headers(st, staging_dir, contrib, 1)
             api == <<contrib.library_contribution.api>>
             api_out == staging_dir \o basename(api)
             with_api == [copied EXCEPT
                            !.ninja = add_copy_file(@, api_out, <<contrib.inner_tree>> \o api),
                            !.api_deps = Append(@, api_out)]
         IN  assemble_contributions(
                 stubgen_arches(with_api, stub_library, api_out, work_dir, 1),
                 stub_library, staging_dir, work_dir, i + 1)

\* CcApiAssemblyContext.assemble_cc_api_library(context, ninja, build_file,
\* stub_library), on the value: the result has the Ninja object and the two
\* fields the context keeps between calls.
cc_assemble(n, rule, added, stub_library) ==
    LET staging_dir == api_library_dir(stub_library.api_surface,
                                       stub_library.api_surface_version, stub_library.name)
        work_dir == api_library_work_dir(stub_library.api_surface,
                                         stub_library.api_surface_version, stub_library.name)
        st == assemble_contributions([ninja |-> n, stubgen_rule |-> rule, api_deps |-> <<>>],
                                     stub_library, staging_dir, work_dir, 1)
        with_levels == IF ~added THEN add_api_levels_file(st.ninja) ELSE st.ninja
        phony == join("-", <<stub_library.api_surface, stub_library.api_surface_version,
                             stub_library.name>>)
        with_phony == ninja_add_build_action(
                          with_levels,
                          BuildAction("phony", LPath(phony), LSeq(st.api_deps), LNone, LNone, <<>>))
    IN  [ninja |-> ninja_add_global_phony(with_phony, ASSEMBLE_PHONY_TARGET, <<phony>>),
         stubgen_rule |-> st.stubgen_rule]

\* The library has one call of its handler per version of `versions`.
Versioned(stub_library) ==
    /\ stub_library.language = "cc_libraries"
    /\ stub_library.api_surface \in {"publicapi", "module-libapi"}

\* assemble_apis, one pass of the loop body for a cc library: the handler is
\* called for the library at lib_idx, after its api_surface_version was set
\* to the version at version_idx when the library is versioned.
assemble_cc_api_library ==
    /\ wstate = "open"
    /\ lib_idx \in DOMAIN stub_libraries
    /\ stub_libraries[lib_idx].language = "cc_libraries"
    /\ LET versioned == Versioned(stub_libraries[lib_idx])
           stub_library == IF versioned
                           THEN [stub_libraries[lib_idx] EXCEPT
                                   !.api_surface_version = versions[version_idx]]
                           ELSE stub_libraries[lib_idx]
           r == cc_assemble(TheNinja, stubgen_rule, api_levels_file_added, stub_library)
       IN  /\ stub_libraries' = [stub_libraries EXCEPT ![lib_idx] = stub_library]
           /\ nodes' = r.ninja.nodes
           /\ rule_cache' = r.ninja.rule_cache
           /\ action_cache' = r.ninja.action_cache
           /\ phonies' = r.ninja.phonies
           /\ g_rules' = r.ninja.g_rules
           /\ g_actions' = r.ninja.g_actions
           /\ g_passed' = r.ninja.g_passed
           /\ stubgen_rule' = r.stubgen_rule
           /\ api_levels_file_added' = TRUE
           /\ IF versioned /\ version_idx < Len(versions)
              THEN /\ version_idx' = version_idx + 1
                   /\ lib_idx' = lib_idx
              ELSE /\ version_idx' = 1
                   /\ lib_idx' = lib_idx + 1
    /\ UNCHANGED <<wstate, file, contributions, cstate, cerrors>>
    /\ UNCHANGED notassemble

\* assemble_resource_api_library(context, ninja, build_file, stub_library),
\* as the loop of assemble_apis calls it for the library at lib_idx: it
\* prints the library and its contributions, and adds nothing to the graph.
assemble_resource_api_library ==
    /\ wstate = "open"
    /\ lib_idx \in DOMAIN stub_libraries
    /\ stub_libraries[lib_idx].language = "resource_libraries"
    /\ lib_idx' = lib_idx + 1
    /\ version_idx' = 1
    /\ UNCHANGED <<stubgen_rule, api_levels_file_added>>
    /\ UNCHANGED <<gvars, cvars>>
    /\ UNCHANGED notassemble

\* A descriptor with a resource library besides a native library.
ResourceFiles ==
    { JsonR({"name", "version", "api_domain", "cc_libraries", "resource_libraries"},
            "vendorapi", "1", "vendor",
            <<Library("libbar", "libbar.map.txt")>>, <<>>,
            <<Library("res", "res.txt")>>) }

\* The descriptors of native libraries the inner trees export.
CcFiles ==
    { Json(AllKeys \ {"java_libraries"}, "publicapi", "1", "system",
           <<LibraryH("libfoo", "libfoo.map.txt",
                      << [name |-> "include", root |-> <<"libfoo", "include">>,
                          headers |-> << <<"libfoo", "include", "foo.h">> >>] >>)>>, <<>>),
      Json(AllKeys \ {"java_libraries"}, "publicapi", "1", "vendor",
           <<Library("libfoo", "libfoo.map.txt")>>, <<>>),
      Json(AllKeys \ {"java_libraries"}, "publicapi", "1", "vendor",
           <<Library("libfoo", "libfoo_vendor.map.txt")>>, <<>>),
      Json(AllKeys \ {"java_libraries"}, "vendorapi", "1", "vendor",
           <<Library("libbar", "libbar.map.txt")>>, <<>>),
      Json(AllKeys \ {"java_libraries"}, "module-libapi", "1", "system",
           <<Library("libbaz", "libbaz.map.txt")>>, <<>>) }

\* What assemble_apis has loaded: a descriptor of the first tree, or one of
\* each tree.
AssembleContributions ==
    LET Files == CcFiles \cup ResourceFiles
    IN  {<<ContributionData("t1", f)>> : f \in Files} \cup
        {<<ContributionData("t1", f), ContributionData("t2", g)>> : f, g \in Files}

\* No assembly is under way; the context objects are as constructed.
AssembleIdle ==
    /\ lib_idx = 0
    /\ version_idx = 0
    /\ stubgen_rule = None
    /\ api_levels_file_added = FALSE

\* assemble_apis after collate_contributions and Ninja(context, ninja_file):
\* CcApiAssemblyContext.__init__ and StubGenerator.__init__ have set
\* _api_levels_file_added = False and _stubgen_rule = None.
AssembleInit ==
    /\ \E cs \in AssembleContributions :
           /\ contributions = cs
           /\ stub_libraries = collate_contributions(cs).libs
    /\ cstate = "collated"
    /\ cerrors = <<>>
    /\ lib_idx = 1
    /\ version_idx = 1
    /\ stubgen_rule = None
    /\ api_levels_file_added = FALSE

\* ------------------------------------------------------------------------
\* The inner trees of the lunch config (core/orchestrator.py,
\* core/inner_tree.py, core/utils.py)
\* ------------------------------------------------------------------------
MaxModules == 2

RECURSIVE list_str(_)
\* str(melds) of a list of str, without its brackets: each element in
\* quotes, separated by ", ".
list_str(l) ==
    IF l = <<>> THEN <<>>
    ELSE <<"'">> \o Head(l) \o <<"'">> \o
         (IF Len(l) = 1 THEN <<>> ELSE <<",", " ">> \o list_str(Tail(l)))

\* A variant that leaves the meld directories out of the hash.
hash_without_melds(k) == <<k.root, k.product>>

\* InnerTreeKey.__hash__: the tuple that is hashed stands for its hash
\* (equal tuples have equal hashes).
hash(k) == <<k.root, <<"[">> \o list_str(k.melds) \o <<"]">>, k.product>>

\* InnerTreeKey.__eq__
eq(a, b) == cmp(a, b) = 0

\* InnerTreeKey.__lt__
lt(a, b) == cmp(a, b) < 0

\* The index in a dict (its entries in insertion order) of the entry python
\* finds for key k: the hashes are equal and __eq__ holds; 0 when there is
\* none.
dict_index(d, k) ==
    LET found == {i \in DOMAIN d : hash(d[i].key) = hash(k) /\ eq(d[i].key, k)}
    IN  IF found = {} THEN 0 ELSE CHOOSE i \in found : TRUE

\* paths of InnerTree.__init__: a str becomes the list of itself.
PathsOf(tree_root) == IF tree_root.t = "seq" THEN tree_root.v ELSE <<tree_root.v[1]>>

\* InnerTree.__init__: the exception it raises, or None.
InnerTreeError(tree_root) ==
    LET meld_dirs == Tail(PathsOf(tree_root))
    IN  IF \E i \in DOMAIN meld_dirs : startswith(meld_dirs[i], <<"/">>)
        THEN "Exception"
        ELSE IF \E i \in DOMAIN meld_dirs : i > 1 /\ startswith(meld_dirs[i], <<"=">>)
        THEN "Exception"
        ELSE None

\* InnerTree(context, paths, product, variant)
InnerTree(tree_root, product) ==
    [root |-> PathsOf(tree_root)[1], meld_dirs |-> Tail(PathsOf(tree_root)),
     product |-> product, domains |-> <<>>,
     out_root_origin |-> inner_tree_dir(PathsOf(tree_root)[1], product)]

\* ApiDomain(domain_name, tree, product): the tree by its key.
ApiDomain(domain_name, tree_key, product) ==
    [name |-> domain_name, tree |-> tree_key, product |-> product]

\* d[name] = value for a dict of domains, in insertion order.
SetDomain(d, name, value) ==
    IF \E i \in DOMAIN d : d[i].name = name
    THEN [i \in DOMAIN d |-> IF d[i].name = name THEN value ELSE d[i]]
    ELSE Append(d, value)

\* add(domain_name, tree_root, product) of process_config, then the stage
\* that follows.
add(domain_name, tree_root, product, next_stage) ==
    LET tree_key == InnerTreeKey(tree_root, product)
        at == dict_index(config_trees, tree_key)
        domain == ApiDomain(domain_name, tree_key, product)
    IN  /\ config_keys' = Append(config_keys, tree_key)
        /\ IF at = 0 /\ InnerTreeError(tree_root) /= None
           THEN /\ config_exc' = InnerTreeError(tree_root)
                /\ UNCHANGED <<config_trees, config_domains, config_stage>>
           ELSE /\ config_trees' =
                     IF at = 0
                     THEN Append(config_trees,
                                 [key |-> tree_key,
                                  tree |-> [InnerTree(tree_root, product) EXCEPT
                                               !.domains = <<domain_name>>]])
                     ELSE [config_trees EXCEPT ![at].tree.domains =
                              IF \E i \in DOMAIN @ : @[i] = domain_name
                              THEN @ ELSE Append(@, domain_name)]
                /\ config_domains' = SetDomain(config_domains, domain_name, domain)
                /\ config_stage' = next_stage
                /\ UNCHANGED config_exc

\* The values of "inner-tree" in the entries of a lunch config.
TreeRoots ==
    {LStr(<<"a">>), LSeq(<<<<"a">>>>), LSeq(<<<<"a">>, <<"o", "1">>>>),
     LSeq(<<<<"a">>, <<"o", "2">>>>), LStr(<<"a", "_", "b">>),
     LSeq(<<<<"a">>, <<"/", "o">>>>)}

\* The values of "product" in the system and vendor entries.
Products == {<<"p">>, <<"b", "_", "p">>, <<"u", "n", "b", "u", "n", "d", "l", "e", "d">>}

\* The names of the modules of a lunch config, in the order of its dict.
ModuleNames == <<"m1", "m2", "m3">>

\* system_entry = lunch_config.get("system"); if system_entry: add(...)
process_system(present, tree_root, product) ==
    /\ config_stage = "system"
    /\ config_exc = None
    /\ IF present
       THEN add("system", tree_root, product, "vendor")
       ELSE /\ config_stage' = "vendor"
            /\ UNCHANGED <<config_keys, config_trees, config_domains, config_exc>>
    /\ UNCHANGED notconfig

\* vendor_entry = lunch_config.get("vendor"); if vendor_entry: add(...)
process_vendor(present, tree_root, product) ==
    /\ config_stage = "vendor"
    /\ config_exc = None
    /\ IF present
       THEN add("vendor", tree_root, product, "modules")
       ELSE /\ config_stage' = "modules"
            /\ UNCHANGED <<config_keys, config_trees, config_domains, config_exc>>
    /\ UNCHANGED notconfig

\* The modules added so far.
ModulesAdded ==
    Cardinality({i \in DOMAIN config_domains :
                    config_domains[i].name \notin {"system", "vendor"}})

\* One turn of the loop over lunch_config.get("modules", {}).items():
\* add(name, entry["inner-tree"], None)
process_module(tree_root) ==
    /\ config_stage = "modules"
    /\ config_exc = None
    /\ ModulesAdded < MaxModules
    /\ add(ModuleNames[ModulesAdded + 1], tree_root, NoProduct, "modules")
    /\ UNCHANGED notconfig

ConfigIdle ==
    /\ config_stage = "idle"
    /\ config_keys = <<>>
    /\ config_trees = <<>>
    /\ config_domains = <<>>
    /\ config_exc = None

\* process_config is entered: trees = {} and domains = {}.
ConfigInit ==
    /\ config_stage = "system"
    /\ config_keys = <<>>
    /\ config_trees = <<>>
    /\ config_domains = <<>>
    /\ config_exc = None

\* ------------------------------------------------------------------------
\* The requests to the inner trees (core/inner_tree.py, core/interrogate.py,
\* core/api_export.py, core/tree_analysis.py, inner_build/common.py)
\* ------------------------------------------------------------------------
MaxRuns == 2

\* An argument of a command line: an option "--name", with its name as the
\* sequence of its pieces, or any other word.
Flag(name) == [opt |-> TRUE, v |-> name]
Word(w) == [opt |-> FALSE, v |-> w]

\* The arguments interrogate_tree passes to invoke.
describe_args(inner_tree) ==
    <<Word("describe"),
      Flag(<<"input", "-", "json">>), Word(<<"tree_query.json", inner_tree.root>>),
      Flag(<<"output", "-", "json">>), Word(<<"tree_info.json", inner_tree.root>>)>>

\* sorted(inner_tree.domains.keys()), for the names in use.
sorted_domains(names) ==
    SelectSeq(<<"m1", "system", "vendor">>, LAMBDA n : n \in names)

RECURSIVE api_domain_args(_)
\* for domain_name in ...: cmd.append("--api_domain"); cmd.append(domain_name)
api_domain_args(names) ==
    IF names = <<>> THEN <<>>
    ELSE <<Flag(<<"api", "_", "domain">>), Word(Head(names))>> \o api_domain_args(Tail(names))

\* The arguments export_apis_from_tree passes to invoke.
export_args(inner_tree) ==
    <<Word("export_api_contributions"),
      Flag(<<"inner", "_", "tree">>), Word(<<"cwd", inner_tree.root>>)>>
    \o api_domain_args(sorted_domains(inner_tree.domains))

\* The arguments run_analysis passes to invoke.
analyze_args(inner_tree) ==
    <<Word("analyze"),
      Flag(<<"inner", "_", "tree">>), Word(<<"cwd", inner_tree.root>>),
      Flag(<<"api", "_", "surfaces", "_", "dir">>), Word("out/api_surfaces")>>

\* InnerTree.invoke: the arguments of .inner_build in the command it runs.
invoke_cmd(inner_tree, args) ==
    <<Flag(<<"out", "_", "dir">>), Word(<<"out", inner_tree.root>>)>> \o args

\* An option of a parser: add_argument(name, action=..., required=...).
Option(name, action, required) == [name |-> name, action |-> action, required |-> required]

\* _parser(): the options of the top-level parser (with the --help that
\* argparse adds to every parser).
TopOptions ==
    {Option(<<"help">>, "help", FALSE),
     Option(<<"out", "_", "dir">>, "store", TRUE)}

\* _parser(): the subcommands.
Subcommands == {"describe", "export_api_contributions", "analyze"}

\* _parser(): the options of the parser of a subcommand.
SubOptions(command) ==
    {Option(<<"help">>, "help", FALSE)} \cup
    (IF command = "describe"
     THEN {Option(<<"input", "_", "json">>, "store", TRUE),
           Option(<<"output", "_", "json">>, "store", TRUE)}
     ELSE IF command = "export_api_contributions"
     THEN {Option(<<"api", "_", "domain">>, "append", TRUE),
           Option(<<"inner", "_", "tree">>, "store", TRUE)}
     ELSE {Option(<<"api", "_", "surfaces", "_", "dir">>, "append", TRUE),
           Option(<<"generate", "_", "ninja">>, "store_true", FALSE),
           Option(<<"inner", "_", "tree">>, "store", TRUE)})

\* argparse: the options a flag on the command line selects: the one of
\* that name, or else those whose name it abbreviates.
MatchOption(options, name) ==
    IF \E o \in options : o.name = name
    THEN {o \in options : o.name = name}
    ELSE {o \in options : Len(name) <= Len(o.name) /\ SubSeq(o.name, 1, Len(name)) = name}

\* The outcome of a parse: a namespace, or the error argparse exits with.
Namespace(command, seen) == [exit |-> 0, error |-> "", command |-> command, seen |-> seen]
ParseError(message) == [exit |-> 2, error |-> message, command |-> "", seen |-> {}]

RECURSIVE parse_options(_, _, _, _, _, _)
\* ArgumentParser.parse_args of a parser without positional arguments, from
\* the i-th argument on: seen are the options given so far, extras counts
\* the arguments no option takes.
parse_options(options, command, argv, i, seen, extras) ==
    IF i > Len(argv)
    THEN IF \E o \in options : o.required /\ o.name \notin seen
         THEN ParseError("the following arguments are required")
         ELSE IF extras > 0 THEN ParseError("unrecognized arguments")
         ELSE Namespace(command, seen)
    ELSE IF ~argv[i].opt
    THEN parse_options(options, command, argv, i + 1, seen, extras + 1)
    ELSE LET found == MatchOption(options, argv[i].v)
         IN  IF found = {}
             THEN parse_options(options, command, argv, i + 1, seen, extras + 1)
             ELSE IF Cardinality(found) > 1
             THEN ParseError("ambiguous option")
             ELSE LET o == CHOOSE o \in found : TRUE
                  IN  IF o.action = "help" THEN [ParseError("help") EXCEPT !.exit = 0]
                      ELSE IF o.action = "store_true"
                      THEN parse_options(options, command, argv, i + 1,
                                         seen \cup {o.name}, extras)
                      ELSE IF i + 1 > Len(argv) \/ argv[i + 1].opt
                      THEN ParseError("expected one argument")
                      ELSE parse_options(options, command, argv, i + 2,
                                         seen \cup {o.name}, extras)

RECURSIVE parse_top(_, _, _)
\* The top-level parser, from the i-th argument on: its options, then the
\* subcommand, whose parser takes every argument after it.
parse_top(argv, i, seen) ==
    IF i > Len(argv) THEN ParseError("the following arguments are required")
    ELSE IF argv[i].opt
    THEN LET found == MatchOption(TopOptions, argv[i].v)
         IN  IF found = {} THEN ParseError("unrecognized arguments")
             ELSE IF Cardinality(found) > 1 THEN ParseError("ambiguous option")
             ELSE LET o == CHOOSE o \in found : TRUE
                  IN  IF o.action = "help" THEN [ParseError("help") EXCEPT !.exit = 0]
                      ELSE IF i + 1 > Len(argv) \/ argv[i + 1].opt
                      THEN ParseError("expected one argument")
                      ELSE parse_top(argv, i + 2, seen \cup {o.name})
    ELSE IF argv[i].v \notin Subcommands THEN ParseError("invalid choice")
    ELSE LET r == parse_options(SubOptions(argv[i].v), argv[i].v,
                                SubSeq(argv, i + 1, Len(argv)), 1, {}, 0)
         IN  IF r.exit /= 0 \/ r.error /= "" THEN r
             ELSE IF \E o \in TopOptions : o.required /\ o.name \notin seen
             THEN ParseError("the following arguments are required")
             ELSE r

\* _parser().parse_args(argv[1:]) of Commands.Run
parse_args(argv) == parse_top(argv, 1, {})

\* The inner trees of the build, with the api domains built in each.
InvokeTrees ==
    {[root |-> "inner1", domains |-> {"system"}],
     [root |-> "inner1", domains |-> {"system", "vendor"}],
     [root |-> "inner2", domains |-> {"vendor"}],
     [root |-> "inner3", domains |-> {"m1"}],
     [root |-> "inner4", domains |-> {"m1", "vendor"}]}

\* inner_tree.invoke(args) and the .inner_build it runs: Commands.Run parses
\* the arguments.
run_inner_build(inner_tree, args) ==
    /\ Len(inner_runs) < MaxRuns
    /\ inner_runs' = Append(inner_runs,
                            [argv |-> invoke_cmd(inner_tree, args),
                             parsed |-> parse_args(invoke_cmd(inner_tree, args))])
    /\ UNCHANGED notinvoke

InvokeIdle == inner_runs = <<>>

\* No inner tree has been called.
InvokeInit == inner_runs = <<>>

\* ------------------------------------------------------------------------
\* Specifications
\* ------------------------------------------------------------------------
GraphNext ==
    \/ \E r \in RuleArgs : add_rule(r)
    \/ \E b \in ActionArgs : add_build_action(b)
    \/ \E n \in PhonyNames, d \in DepArgs : add_global_phony(n, d)
    \/ write

InitGraph == GraphInit /\ JailIdle /\ CollateIdle /\ PipelineIdle /\ MeldIdle /\ ScanIdle /\ AssembleIdle /\ ConfigIdle /\ InvokeIdle

SpecGraph == InitGraph /\ [][GraphNext]_vars

JailNext ==
    \/ \E c \in Configs, kw \in MountArgs : add_mountpt(c, kw)
    \/ add_nsjail("a", "b")
    \/ make_cwd_writable("a")

InitJail == JailInit /\ GraphIdle /\ CollateIdle /\ PipelineIdle /\ MeldIdle /\ ScanIdle /\ AssembleIdle /\ ConfigIdle /\ InvokeIdle

SpecJail == InitJail /\ [][JailNext]_vars

CollateNext ==
    \/ \E t \in Trees, j \in JsonFiles : load_contribution(t, j)
    \/ \E t \in Trees : load_contribution_unparsable(t)
    \/ collate

InitCollate == CollateInit /\ GraphIdle /\ JailIdle /\ PipelineIdle /\ MeldIdle /\ ScanIdle /\ AssembleIdle /\ ConfigIdle /\ InvokeIdle

SpecCollate == InitCollate /\ [][CollateNext]_vars

PipelineNext ==
    \/ \E r \in {None, "AssertionError"} : create_nsjail_config(r)
    \/ \E rc \in ReturnCodes, f \in TreeInfoFiles : interrogate_tree(rc, f)
    \/ \E rc \in ReturnCodes : export_apis_from_tree(rc)
    \/ \E r \in {None, "KeyError", "JSONDecodeError"} : assemble_apis(r)
    \/ \E rc \in ReturnCodes : run_analysis(rc)
    \/ \E r \in {None, "Exception"} : final_packaging(r)
    \/ \E rc \in ReturnCodes : run_ninja(rc)

InitPipeline == PipelineInit /\ GraphIdle /\ JailIdle /\ CollateIdle /\ MeldIdle /\ ScanIdle /\ AssembleIdle /\ ConfigIdle /\ InvokeIdle

SpecPipeline == InitPipeline /\ [][PipelineNext]_vars

MeldNext == \E names \in WalkOrders : meld_config(names)

InitMeld == MeldInit /\ GraphIdle /\ JailIdle /\ CollateIdle /\ PipelineIdle /\ ScanIdle /\ AssembleIdle /\ ConfigIdle /\ InvokeIdle

SpecMeld == InitMeld /\ [][MeldNext]_vars

ScanNext == api_contribution_files_for_inner_tree

InitScan == ScanInit /\ GraphIdle /\ JailIdle /\ CollateIdle /\ PipelineIdle /\ MeldIdle /\ AssembleIdle /\ ConfigIdle /\ InvokeIdle

SpecScan == InitScan /\ [][ScanNext]_vars

AssembleNext ==
    \/ assemble_cc_api_library
    \/ assemble_resource_api_library

InitAssemble == AssembleInit /\ GraphInit /\ JailIdle /\ PipelineIdle /\ MeldIdle /\ ScanIdle /\ ConfigIdle /\ InvokeIdle

SpecAssemble == InitAssemble /\ [][AssembleNext]_vars

ConfigNext ==
    \/ \E present \in BOOLEAN, r \in TreeRoots, p \in Products : process_system(present, r, p)
    \/ \E present \in BOOLEAN, r \in TreeRoots, p \in Products : process_vendor(present, r, p)
    \/ \E r \in TreeRoots : process_module(r)

InitConfig == ConfigInit /\ GraphIdle /\ JailIdle /\ CollateIdle /\ PipelineIdle /\ MeldIdle /\ ScanIdle /\ AssembleIdle /\ InvokeIdle

SpecConfig == InitConfig /\ [][ConfigNext]_vars

InvokeNext ==
    \/ \E t \in InvokeTrees : run_inner_build(t, describe_args(t))
    \/ \E t \in InvokeTrees : run_inner_build(t, export_args(t))
    \/ \E t \in InvokeTrees : run_inner_build(t, analyze_args(t))

InitInvoke == InvokeInit /\ GraphIdle /\ JailIdle /\ CollateIdle /\ PipelineIdle /\ MeldIdle /\ ScanIdle /\ AssembleIdle /\ ConfigIdle

SpecInvoke == InitInvoke /\ [][InvokeNext]_vars

\* ------------------------------------------------------------------------
\* Claims about the build graph (checked under SpecGraph)
\* ------------------------------------------------------------------------
\* Two nodes have the same content: the same kind and the same defining
\* fields, the variables compared in their sorted order.
SameContent(a, b) ==
    /\ a.kind = b.kind
    /\ a.name = b.name
    /\ a.output = b.output
    /\ a.inputs = b.inputs
    /\ a.implicits = b.implicits
    /\ a.order_only = b.order_only
    /\ variables(a.vars) = variables(b.vars)

\* C1: the node list holds exactly one Rule or BuildAction node for every
\* distinct content that add_rule / add_build_action was called with (a
\* content-equal call appends nothing, two actions that differ in a field
\* are both kept), and before write() it holds no other node.
C1_OneNodePerContent ==
    /\ \A a \in g_rules \cup g_actions :
         Cardinality({i \in DOMAIN nodes : SameContent(nodes[i], a)}) = 1
    /\ wstate = "open" =>
         \A i \in DOMAIN nodes :
            \E a \in g_rules \cup g_actions : SameContent(nodes[i], a)

\* C1 witness: a rule was added twice with equal content (its variables in
\* another order), and two actions with the same output and different
\* inputs were added.
C1_Witness ==
    /\ \E r1, r2 \in g_rules : r1 /= r2 /\ SameContent(r1, r2)
    /\ \E a1, a2 \in g_actions :
         a1.output = a2.output /\ a1.output /= <<>> /\ a1.inputs /= a2.inputs

\* The phony build actions of the graph whose output is the name n.
PhonyNodes(n) ==
    {i \in DOMAIN nodes :
        /\ nodes[i].kind = "build"
        /\ nodes[i].name = "phony"
        /\ nodes[i].output = <<n>>}

\* A producer added a phony action for n itself (add_phony, add_build_action).
DirectPhony(n) ==
    \E a \in g_actions : a.name = "phony" /\ a.output = <<n>>

\* C2: after add_global_phony calls and write(), every accumulated name that
\* no producer added a phony for directly has exactly one phony build
\* action, whose inputs are the union of the deps passed for the name, each
\* once.
C2_GlobalPhonyUnion ==
    wstate /= "open" =>
      \A k \in DOMAIN phonies :
         LET n == phonies[k].name IN
         ~DirectPhony(n) =>
            /\ Cardinality(PhonyNodes(n)) = 1
            /\ \A i \in PhonyNodes(n) :
                 /\ Range(nodes[i].inputs) = {p[2] : p \in {q \in g_passed : q[1] = n}}
                 /\ Len(nodes[i].inputs) = Cardinality(Range(nodes[i].inputs))

\* C2 witness: write() has run and a name accumulated deps from two calls.
C2_Witness ==
    /\ wstate = "written"
    /\ \E k \in DOMAIN phonies :
         /\ ~DirectPhony(phonies[k].name)
         /\ phonies[k].deps = {"i1", "i2"}
         /\ PhonyNodes(phonies[k].name) /= {}

\* C11: a BuildAction without outputs is rejected when it is constructed or
\* added: the node list never holds one, and write() never raises for one.
C11_NoOutputRejectedEarly ==
    /\ \A i \in DOMAIN nodes : nodes[i].kind = "build" => nodes[i].output /= <<>>
    /\ wstate /= "BuildActionException"

\* The rule names declared by the rule nodes of a node list.
DeclaredRules(ns) == {ns[i].name : i \in {j \in DOMAIN ns : ns[j].kind = "rule"}}

\* C12: a BuildAction whose rule is not declared in the graph is rejected: a
\* graph that was written holds no build action of an undeclared rule
\* (phony is built into ninja).
C12_UndeclaredRuleRejected ==
    wstate = "written" =>
        \A i \in DOMAIN file :
            (file[i].kind = "build" /\ file[i].name /= "phony")
                => file[i].name \in DeclaredRules(file)

\* The nodes a producer added: the rules and build actions passed to
\* add_rule, add_build_action and add_phony.
ProducerNodes == {i \in DOMAIN nodes : nodes[i] \in g_rules \cup g_actions}

DirComps(p) == SelectSeq(split(p), LAMBDA c : c /= <<>>)

\* child is parent or a directory below it.
Nested(child, parent) ==
    /\ Len(DirComps(parent)) <= Len(DirComps(child))
    /\ SubSeq(DirComps(child), 1, Len(DirComps(parent))) = DirComps(parent)

\* The mounts of a before the union, and the mounts of b.
PreMounts == Deref(jlast.pre)
OtherMounts == Deref(jmounts["b"])

\* b has a mount at the destination of a mount of a, and the two differ.
Conflict ==
    \E i \in DOMAIN PreMounts, j \in DOMAIN OtherMounts :
        /\ PreMounts[i].dst = OtherMounts[j].dst
        /\ PreMounts[i] /= OtherMounts[j]

\* C3: add_nsjail(a, b) fails whenever b has a mount whose destination is
\* that of a mount of a and the two mounts differ in a field.
C3_CollisionFails ==
    (jlast.op = "add_nsjail" /\ Conflict) => jlast.result = "AssertionError"

\* C4: add_nsjail(a, b) fails whenever b's working directory is neither a's
\* working directory nor a directory below it.
C4_NotNestedFails ==
    (jlast.op = "add_nsjail" /\ ~Nested(jcwd["b"], jcwd["a"]))
        => jlast.result = "AssertionError"

\* C5: with b's working directory nested under a's and no differing mount
\* at a common destination, add_nsjail(a, b) succeeds; a's mounts are then
\* its previous mounts in order followed by the mounts of b at new
\* destinations, and a's mount set is the union of both mount sets.
C5_UnionSucceeds ==
    (jlast.op = "add_nsjail" /\ Nested(jcwd["b"], jcwd["a"]) /\ ~Conflict) =>
        /\ jlast.result = "ok"
        /\ Deref(jmounts["a"]) =
             PreMounts \o SelectSeq(OtherMounts,
                                    LAMBDA m : m.dst \notin Range([i \in DOMAIN PreMounts |-> PreMounts[i].dst]))
        /\ Range(Deref(jmounts["a"])) = Range(PreMounts) \cup Range(OtherMounts)

\* C5 witness: a union of nested configs succeeded, appended a mount of b
\* and skipped a mount that both a and b had added.
C5_Witness ==
    /\ jlast.op = "add_nsjail"
    /\ jlast.result = "ok"
    /\ Nested(jcwd["b"], jcwd["a"])
    /\ jcwd["b"] /= jcwd["a"]
    /\ ~Conflict
    /\ Len(jmounts["a"]) > Len(jlast.pre)
    /\ \E i \in DOMAIN PreMounts, j \in DOMAIN OtherMounts :
         /\ i > Len(BaseMounts)
         /\ PreMounts[i] = OtherMounts[j]

\* C15: after any sequence of add_mountpt and add_nsjail, no two mounts of a
\* config have the same destination.
C15_UniqueDestinations ==
    \A c \in DOMAIN jmounts :
        \A i, j \in DOMAIN jmounts[c] :
            heap[jmounts[c][i]].dst = heap[jmounts[c][j]].dst => i = j

\* os.path.isabs
isabs(p) == p /= <<>> /\ p[1] = "/"

\* The arguments give a relative path as src or as dst.
RelativeArgs(kw) ==
    \/ kw.src /= <<>> /\ ~isabs(kw.src)
    \/ kw.dst /= <<>> /\ ~isabs(kw.dst)

C23_CwdWritableOnly ==
    [][make_cwd_writable("a") =>
         /\ jmounts' = jmounts
         /\ jcwd' = jcwd
         /\ \A i \in Range(jmounts["a"]) :
                heap'[i] = IF Nested(heap[i].dst, jcwd["a"])
                           THEN [heap[i] EXCEPT !.rw = T]
                           ELSE heap[i]]_vars

\* C28: add_nsjail(a, b) leaves the mounts of b as they were, and so does
\* make_cwd_writable on a afterwards: every mount of b keeps every field,
\* its rw flag included.
C28_OtherConfigUntouched ==
    [][(add_nsjail("a", "b") \/ make_cwd_writable("a")) =>
          [i \in DOMAIN jmounts'["b"] |-> heap'[jmounts'["b"][i]]] = Deref(jmounts["b"])]_vars

\* ------------------------------------------------------------------------
\* Claims about the collation of contributions (SpecCollate)
\* ------------------------------------------------------------------------
\* The permutations of a list.
PermsOfSeq(s) == {[i \in DOMAIN s |-> s[f[i]]] : f \in Perms(DOMAIN s)}

\* A list as a collection: how many times each element occurs.
BagOf(s) == [x \in Range(s) |-> Cardinality({i \in DOMAIN s : s[i] = x})]

LibKey(lib) == <<lib.language, lib.api_surface, lib.api_surface_version, lib.name>>

\* The keys of a StubLibrary list, each with its collection of contributions.
Groups(libs) == {<<LibKey(libs[i]), BagOf(libs[i].contributions)>> : i \in DOMAIN libs}

\* C6: collate_contributions applied to any permutation of the list gives
\* the same set of keys (language, surface name, surface version, library
\* name) and under each key the same collection of contributions; a list
\* that makes it raise makes it raise in every order.
C6_OrderIndependent ==
    cstate \in {"collated", "KeyError"} =>
        \A p \in PermsOfSeq(contributions) :
            LET r == collate_contributions(p)
            IN /\ (r.exc = None) <=> (cstate = "collated")
               /\ r.exc = None => Groups(r.libs) = Groups(stub_libraries)

\* Three contributions were collated, and some other order of them gives the
\* libraries, or the contributions of one, in another order.
C6_Witness ==
    /\ cstate = "collated"
    /\ Len(contributions) = 3
    /\ \E p \in PermsOfSeq(contributions) :
           /\ collate_contributions(p).libs /= stub_libraries
           /\ \E i \in DOMAIN stub_libraries : Len(stub_libraries[i].contributions) >= 2

\* The library entries of the input: contribution c, language l, entry e.
Entries ==
    {<<c, l, e>> \in (DOMAIN contributions) \X (DOMAIN STUB_LANGUAGE_HANDLERS) \X (1..2) :
        e \in DOMAIN dict_get(contributions[c].json_data, STUB_LANGUAGE_HANDLERS[l], <<>>)}

EntryLibrary(x) == contributions[x[1]].json_data[STUB_LANGUAGE_HANDLERS[x[2]]][x[3]]

EntryKey(x) ==
    <<STUB_LANGUAGE_HANDLERS[x[2]], contributions[x[1]].json_data.name,
      contributions[x[1]].json_data.version, EntryLibrary(x).name>>

\* C7: collate_contributions returns exactly one StubLibrary per distinct
\* (language, surface name, surface version, library name) of the input,
\* and each StubLibrary holds exactly one contribution per library entry
\* with its key, recording that entry's inner tree and API domain.
C7_OneLibraryPerKey ==
    cstate = "collated" =>
        /\ \A i, j \in DOMAIN stub_libraries :
               LibKey(stub_libraries[i]) = LibKey(stub_libraries[j]) => i = j
        /\ {LibKey(stub_libraries[i]) : i \in DOMAIN stub_libraries}
               = {EntryKey(x) : x \in Entries}
        /\ \A i \in DOMAIN stub_libraries :
               LET lib == stub_libraries[i]
                   mine == {x \in Entries : EntryKey(x) = LibKey(lib)}
               IN /\ Len(lib.contributions) = Cardinality(mine)
                  /\ \A x \in mine :
                         LET c == [inner_tree |-> contributions[x[1]].inner_tree,
                                   api_domain |-> contributions[x[1]].json_data.api_domain,
                                   library_contribution |-> EntryLibrary(x)]
                         IN Cardinality({n \in DOMAIN lib.contributions :
                                             lib.contributions[n] = c})
                            = Cardinality({y \in mine :
                                   /\ contributions[y[1]].inner_tree = c.inner_tree
                                   /\ contributions[y[1]].json_data.api_domain = c.api_domain
                                   /\ EntryLibrary(y) = c.library_contribution})

\* Two descriptors from two trees declare libfoo under publicapi version 1:
\* one StubLibrary with two contributions, one from each tree.
C7_Witness ==
    /\ cstate = "collated"
    /\ Len(contributions) = 2
    /\ contributions[1].inner_tree /= contributions[2].inner_tree
    /\ Len(stub_libraries) = 1
    /\ LibKey(stub_libraries[1]) = <<"cc_libraries", "publicapi", "1", "libfoo">>
    /\ Len(stub_libraries[1].contributions) = 2
    /\ {stub_libraries[1].contributions[n].inner_tree : n \in 1..2} = Trees

\* The top-level fields collate_contributions requires of a descriptor.
RequiredFields == {"name", "version", "api_domain"}

Malformed(json_data) == ~(RequiredFields \subseteq json_data.keys)

\* C13: a descriptor that cannot be parsed, or that lacks a required
\* top-level field, does not end assemble_apis: an error is reported for
\* it, and it is left out of the collation of the other descriptors.
C13_MalformedSkipped ==
    /\ cstate \notin {"JSONDecodeError", "KeyError"}
    /\ cstate = "collated" =>
           /\ \A i \in DOMAIN contributions :
                  Malformed(contributions[i].json_data) =>
                      \E e \in DOMAIN cerrors :
                          cerrors[e].file = contributions[i].inner_tree
           /\ stub_libraries =
                  collate_contributions(
                      SelectSeq(contributions,
                                LAMBDA c : ~Malformed(c.json_data))).libs

\* ------------------------------------------------------------------------
\* Claims about the build pipeline (SpecPipeline)
\* ------------------------------------------------------------------------
\* The step of stage r that must be over before a later stage starts: for
\* every tree when the stage runs per tree.
StageOver(r, j) ==
    IF Stages[r] \in PerTree
    THEN \A t \in trees : \E i \in 1..(j - 1) : plog[i] = Ended(Stages[r], t, 0)
    ELSE \E i \in 1..(j - 1) : plog[i] = Ended(Stages[r], <<>>, 0)

\* C8: the stages run in the order interrogate, export, assemble, analyze,
\* package, execute, none is skipped, one step runs at a time, and every
\* tree has finished its invocation of a stage before anything of a later
\* stage starts.
C8_StageOrder ==
    /\ \A i, j \in DOMAIN plog :
           i < j => StageRank(plog[i].stage) <= StageRank(plog[j].stage)
    /\ \A j \in DOMAIN plog :
           \A r \in 1..(StageRank(plog[j].stage) - 1) : StageOver(r, j)
    /\ \A i \in DOMAIN plog :
           plog[i].ev = "start" =>
               /\ i < Len(plog)
               /\ plog[i + 1].ev /= "start"
               /\ plog[i + 1].stage = plog[i].stage
               /\ plog[i + 1].tree = plog[i].tree
    /\ pstage = "done" => \A r \in DOMAIN Stages : StageOver(r, Len(plog) + 1)

\* A run over three trees went through all six stages.
C8_Witness ==
    /\ pstage = "done"
    /\ Cardinality(trees) = 3
    /\ exit_status = <<EXIT_STATUS_OK>>
    /\ Len(plog) = 24

ChildStages == PerTree \cup {"execute"}

\* C9: when a child (an inner-tree command, or the final ninja run) has
\* returned non-zero, the run has ended with a non-zero exit status, nothing
\* started after that child, and that child ran once.
C9_ChildFailureStops ==
    \A i \in DOMAIN plog :
        (plog[i].ev = "end" /\ plog[i].stage \in ChildStages /\ plog[i].rc /= 0) =>
            /\ i = Len(plog)
            /\ pstage = "exited"
            /\ exit_status /= <<>>
            /\ exit_status[1] /= 0
            /\ Cardinality({k \in DOMAIN plog :
                   plog[k] = Started(plog[i].stage, plog[i].tree)}) = 1

\* The export of the first of three trees failed, after three interrogations.
C9_Witness ==
    /\ Cardinality(trees) = 3
    /\ Len(plog) = 8
    /\ plog[8].ev = "end"
    /\ plog[8].stage = "export"
    /\ plog[8].rc /= 0
    /\ pstage = "exited"


\* C17: a describe response with a non-zero version makes interrogate_tree
\* raise DescribeError (nothing is returned for it); a response with only
\* valid keys and no non-zero version is accepted, and what is returned has
\* version 0 when the response had none, and domain_data [] when the
\* response had none.
C17_VersionAndDefaults ==
    \A i \in DOMAIN info_read :
        LET f == info_read[i] IN
        f.kind = "dict" /\ f.keys \subseteq {"version", "domain_data"} =>
            IF "version" \in f.keys /\ f.version /= 0
            THEN /\ i = Len(info_read)
                 /\ i = Len(description) + 1
                 /\ pexc = "DescribeError"
            ELSE /\ i \in DOMAIN description
                 /\ description[i].version = 0
                 /\ description[i].domain_data =
                        (IF "domain_data" \in f.keys THEN f.domain_data ELSE <<>>)

\* C17 witness: a response without domain_data and without version was
\* accepted and returned with [] and 0, and a later response with version 1
\* raised DescribeError.
C17_Witness ==
    /\ pexc = "DescribeError"
    /\ Len(info_read) > 1
    /\ info_read[1].kind = "dict" /\ info_read[1].keys = {}
    /\ description[1] = [version |-> 0, domain_data |-> <<>>]
    /\ info_read[Len(info_read)].version = 1

\* ------------------------------------------------------------------------
\* Claims about melding (SpecMeld)
\* ------------------------------------------------------------------------
\* The overlays that are melded, in order: the meld directories, without a
\* first one that overlays the whole tree ("=").
Overlays ==
    IF mtree.meld_dirs /= <<>> /\ startswith(mtree.meld_dirs[1], <<"=">>)
    THEN Tail(mtree.meld_dirs)
    ELSE mtree.meld_dirs

HasGit(d) == (d \o <<DotGit>>) \in mfs.dirs

\* Whether directory a is directory d or above it.
Above(a, d) == Len(a) <= Len(d) /\ SubSeq(d, 1, Len(a)) = a

\* The version-controlled subtrees of overlay k: the directories below its
\* root that hold a .git directory, with none at or above them, up to and
\* including the root, that holds one; each as its path p below the root.
Subtrees(k) ==
    LET o == resolve(Overlays[k])
    IN  {SubSeq(d, Len(o) + 1, Len(d)) :
            d \in {x \in mfs.dirs :
                     /\ Above(o, x) /\ x /= o /\ HasGit(x)
                     /\ \A a \in mfs.dirs :
                            (Above(o, a) /\ Above(a, x) /\ a /= x) => ~HasGit(a)}}

AbsPath(comps) == <<"/">> \o joinslash(comps)

\* The mounts that melding added to the config.
FirstMelded == Len(BaseMounts) + 4

\* p in the primary root is absent, or an empty directory.
PrimaryGap(p) ==
    LET d == resolve(mtree.root) \o p
    IN  /\ d \notin mfs.files
        /\ d \in mfs.dirs => Below(mfs.dirs \cup mfs.files, d) = {}

\* The indexes of the mounts of subtree p of overlay k at p under the primary
\* root.
MountsOf(k, p) ==
    {i \in FirstMelded..Len(mconfig.mounts) :
        /\ mconfig.mounts[i].src = AbsPath(resolve(Overlays[k]) \o p)
        /\ mconfig.mounts[i].dst = AbsPath(resolve(mtree.root) \o p)}

\* C10: when meld_config has mounted the version-controlled subtree p of an
\* overlay at p under the primary root, no earlier mount of the config had
\* that destination and p in the primary root is absent or an empty
\* directory; and of two overlays that both provide p, the later one's
\* subtree is not mounted.
C10_MeldOnlyIntoGaps ==
    mcached =>
        \A k \in DOMAIN Overlays : \A p \in Subtrees(k) : \A i \in MountsOf(k, p) :
            /\ \A j \in 1..(i - 1) : mconfig.mounts[j].dst /= mconfig.mounts[i].dst
            /\ PrimaryGap(p)
            /\ \A k2 \in 1..(k - 1) : p \notin Subtrees(k2)

\* The version-controlled subtrees under the version-controlled root of
\* overlay k: the directories strictly below the root that hold a .git
\* directory, with none between the root and them that holds one; each as
\* its path p below the root.
SubtreesUnderGitRoot(k) ==
    LET o == resolve(Overlays[k])
    IN  IF ~HasGit(o) THEN {}
        ELSE {SubSeq(d, Len(o) + 1, Len(d)) :
                d \in {x \in mfs.dirs :
                         /\ Above(o, x) /\ x /= o /\ HasGit(x)
                         /\ \A a \in mfs.dirs :
                                (Above(o, a) /\ Above(a, x) /\ a /= x /\ a /= o) => ~HasGit(a)}}

\* C27: when the root of an overlay is itself version-controlled,
\* meld_config mounts every version-controlled subtree p under it at p under
\* the primary root, unless that destination is already mounted or p in the
\* primary root is a file or a directory that is not empty.
C27_GitRootOverlayMelded ==
    (mcached /\ mexc = None) =>
        \A k \in DOMAIN Overlays : \A p \in SubtreesUnderGitRoot(k) :
            PrimaryGap(p) =>
                \/ MountsOf(k, p) /= {}
                \/ \E i \in DOMAIN mconfig.mounts :
                       mconfig.mounts[i].dst = AbsPath(resolve(mtree.root) \o p)

\* ------------------------------------------------------------------------
\* Claims about the scan for contribution files (checked under SpecScan)
\* ------------------------------------------------------------------------
\* C14: an inner tree whose api_contributions directory does not exist
\* contributes no descriptor and causes no error: the scan goes on to the
\* next tree with an empty list for it.
C14_AbsentDirNoError ==
    /\ sstate /= "FileNotFoundError"
    /\ \A i \in DOMAIN sfiles : ~sdirs[i].exists => sfiles[i] = <<>>
    /\ sstate = "scanned" => Len(sfiles) = Len(ScanTrees)

\* C29: the scan of an inner tree returns the path of every regular file of
\* its api_contributions directory whose name ends in .json, and nothing
\* else, whatever other entries the directory holds and in whatever order.
C29_EveryJsonFile ==
    \A i \in DOMAIN sfiles :
        sdirs[i].exists =>
            Range(sfiles[i]) =
                {path_join(api_contributions_dir(ScanTrees[i]), e.name) :
                    e \in {x \in Range(sdirs[i].entries) :
                              x.is_file /\ endswith(x.name, <<".", "j", "s", "o", "n">>)}}

\* ------------------------------------------------------------------------
\* Claims about the assembly of the stub libraries (SpecAssemble)
\* ------------------------------------------------------------------------
\* The build actions that generate stubs, and those that write the API-level
\* map file.
StubgenNodes == {i \in DOMAIN nodes : nodes[i].kind = "build" /\ nodes[i].name = "genCcStubsRule"}
LevelsNodes ==
    {i \in DOMAIN nodes : nodes[i].kind = "build" /\ nodes[i].name /= "phony"
                          /\ api_levels_file \in Range(nodes[i].output)}

\* C18: in a run of assemble_apis the graph has at most one build action that
\* writes the API-level map file, and every stub-generation build action has
\* that file among its implicit inputs.
C18_OneLevelsFile ==
    /\ Cardinality(LevelsNodes) <= 1
    /\ \A i \in StubgenNodes : api_levels_file \in Range(nodes[i].implicits)

\* C18 witness: two stub libraries were assembled, one map file action is in
\* the graph, and there are stub-generation actions.
C18_Witness ==
    /\ Len(stub_libraries) = 2
    /\ lib_idx > Len(stub_libraries)
    /\ Cardinality(LevelsNodes) = 1
    /\ StubgenNodes /= {}

\* The value of a variable of a build action.
VarOf(n, name) ==
    LET i == CHOOSE i \in DOMAIN n.vars : n.vars[i][1] = name IN n.vars[i][2]

\* The stub-generation actions of a library at a level and an architecture:
\* their outputs are below the work directory of (surface, level, library).
StubgenOf(lib, level, arch) ==
    {i \in StubgenNodes :
        /\ VarOf(nodes[i], "apiLevel") = level
        /\ VarOf(nodes[i], "arch") = arch
        /\ \A o \in Range(nodes[i].output) :
               SubSeq(o, 1, Len(o) - 2) = api_library_work_dir(lib.api_surface, level, lib.name)}

\* C19: once a native library of publicapi or module-libapi is assembled,
\* every level of 1..LastLevel and "current" and every architecture has
\* exactly one stub-generation action, and no two stub-generation actions
\* have an output in common.
C19_OneActionPerLevelArch ==
    /\ \A l \in DOMAIN stub_libraries :
           (l < lib_idx /\ Versioned(stub_libraries[l])) =>
               \A v \in DOMAIN versions, a \in DOMAIN ARCHES :
                   Cardinality(StubgenOf(stub_libraries[l], versions[v], ARCHES[a])) = 1
    /\ \A i, j \in StubgenNodes :
           i /= j => Range(nodes[i].output) \cap Range(nodes[j].output) = {}

\* C20: the outputs of every stub-generation action are inputs of the phony
\* target of its library, the one named surface-version-name.
C20_StubsUnderPhony ==
    \A i \in StubgenNodes :
        LET o == nodes[i].output[1]
            phony == join("-", <<o[5], o[6], o[7]>>)
        IN  \E j \in DOMAIN nodes :
                /\ nodes[j].kind = "build" /\ nodes[j].name = "phony"
                /\ nodes[j].output = <<phony>>
                /\ Range(nodes[i].output) \subseteq Range(nodes[j].inputs)

\* The stub libraries the loop of assemble_apis is done with.
Assembled == {l \in DOMAIN stub_libraries : l < lib_idx}

\* The name of the phony target of a library: surface-version-name.
PhonyName(lib) == join("-", <<lib.api_surface, lib.api_surface_version, lib.name>>)

\* The deps accumulated for a global phony so far (write makes them the
\* inputs of its phony action).
GlobalDeps(name) ==
    UNION {phonies[i].deps : i \in {j \in DOMAIN phonies : phonies[j].name = name}}

\* C21: every assembled stub library, of any language, has a phony build
\* action named surface-version-name, and the global phony multitree-sdk has
\* that name among its dependencies.
C21_EveryLibraryHasPhony ==
    \A l \in Assembled :
        /\ \E i \in DOMAIN nodes :
               /\ nodes[i].kind = "build" /\ nodes[i].name = "phony"
               /\ nodes[i].output = <<PhonyName(stub_libraries[l])>>
        /\ PhonyName(stub_libraries[l]) \in GlobalDeps(ASSEMBLE_PHONY_TARGET)

\* The StubLibrary objects as collate_contributions returned them: the
\* fields of each are the key it was grouped under.
Collated == collate_contributions(contributions).libs

\* Two python values are equal: same type and same value (1 and "1" differ).
SameValue(x, y) == ToString(x) = ToString(y)

\* The handler was called for library l at least once.
HandlerCalled(l) == l < lib_idx \/ (l = lib_idx /\ version_idx > 1)

\* C26: during assemble_apis the language, the surface name, the surface
\* version and the name of every StubLibrary are those of the key it was
\* collated under.
C26_KeyFieldsKept ==
    /\ Len(stub_libraries) = Len(Collated)
    /\ \A l \in DOMAIN stub_libraries :
           /\ stub_libraries[l].language = Collated[l].language
           /\ stub_libraries[l].api_surface = Collated[l].api_surface
           /\ stub_libraries[l].name = Collated[l].name
           /\ SameValue(stub_libraries[l].api_surface_version,
                        Collated[l].api_surface_version)

\* C26, amended: the language, the surface name and the name are kept; the
\* surface version is kept for every library but the cc libraries of
\* publicapi and module-libapi, whose version is the level the handler was
\* last called for, and "current" once the library is assembled.
C26_KeyFieldsButVersionKept ==
    /\ Len(stub_libraries) = Len(Collated)
    /\ \A l \in DOMAIN stub_libraries :
           /\ stub_libraries[l].language = Collated[l].language
           /\ stub_libraries[l].api_surface = Collated[l].api_surface
           /\ stub_libraries[l].name = Collated[l].name
           /\ IF /\ Collated[l].language = "cc_libraries"
                 /\ Collated[l].api_surface \in {"publicapi", "module-libapi"}
                 /\ HandlerCalled(l)
              THEN SameValue(stub_libraries[l].api_surface_version,
                             IF l < lib_idx THEN "current"
                             ELSE ToString(version_idx - 1))
              ELSE SameValue(stub_libraries[l].api_surface_version,
                             Collated[l].api_surface_version)

\* C26 witness: a cc library of publicapi or module-libapi has been
\* assembled and carries the version "current", and a library of another
\* surface has been assembled and carries the version of its key.
C26_Witness ==
    /\ \E l \in Assembled :
           /\ Collated[l].api_surface \in {"publicapi", "module-libapi"}
           /\ SameValue(stub_libraries[l].api_surface_version, "current")
           /\ ~SameValue(Collated[l].api_surface_version, "current")
    /\ \E l \in Assembled :
           /\ Collated[l].api_surface \notin {"publicapi", "module-libapi"}
           /\ SameValue(stub_libraries[l].api_surface_version,
                        Collated[l].api_surface_version)

\* ------------------------------------------------------------------------
\* Claims about the inner trees of the lunch config (checked under SpecConfig)
\* ------------------------------------------------------------------------
\* The keys that add() constructed.
KeysMade == Range(config_keys)

\* a comes before b: by root, then by the list of meld directories, then by
\* product, where no product comes before every product.
Before(a, b) ==
    \/ str_lt(a.root, b.root)
    \/ a.root = b.root /\ list_lt(a.melds, b.melds)
    \/ /\ a.root = b.root /\ a.melds = b.melds /\ a.product /= b.product
       /\ \/ a.product = NoProduct
          \/ b.product /= NoProduct /\ str_lt(a.product, b.product)

\* C24: the comparison of InnerTreeKeys is a total order by root, then meld
\* list, then product with None first; two keys are equal exactly when root,
\* meld list and product are equal, and equal keys have equal hashes.
C24_KeyTotalOrder ==
    \A a, b \in KeysMade :
        /\ cmp(a, b) = 0 - cmp(b, a)
        /\ lt(a, b) <=> Before(a, b)
        /\ eq(a, b) <=> (a.root = b.root /\ a.melds = b.melds /\ a.product = b.product)
        /\ eq(a, b) => hash(a) = hash(b)
        /\ \A c \in KeysMade : (lt(a, b) /\ lt(b, c)) => lt(a, c)

\* C24 witness: add() was called with the same key twice, with two keys that
\* differ in the meld list only, and with two keys that differ in the
\* product only, one of them without a product.
C24_Witness ==
    /\ \E i, j \in DOMAIN config_keys : i < j /\ eq(config_keys[i], config_keys[j])
    /\ \E a, b \in KeysMade :
           a.root = b.root /\ a.product = b.product /\ lt(a, b)
    /\ \E a, b \in KeysMade :
           /\ a.root = b.root /\ a.melds = b.melds
           /\ a.product = NoProduct /\ lt(a, b)

\* C25: two inner trees of the lunch config whose keys differ (in root, in
\* meld list or in product) have different output directories.
C25_DistinctOutDirs ==
    \A i, j \in DOMAIN config_trees :
        ~eq(config_trees[i].key, config_trees[j].key) =>
            config_trees[i].tree.out_root_origin /= config_trees[j].tree.out_root_origin

\* ------------------------------------------------------------------------
\* Claims about the requests to the inner trees (checked under SpecInvoke)
\* ------------------------------------------------------------------------
\* C30: in every command line the orchestrator runs, the subcommand is one
\* the parser of inner_build declares and every option is one the parser
\* declares for it (or for the top level, before the subcommand), so the
\* parser accepts the command line.
C30_RequestsAccepted ==
    \A i \in DOMAIN inner_runs :
        /\ inner_runs[i].parsed.exit = 0
        /\ inner_runs[i].parsed.error = ""

=============================================================================
